---- MODULE Spec2Model ----
(***************************************************************************)
(* Black Widow Global (src/app.py): the analysis run of the Streamlit app. *)
(* One run gathers six provider results into findings["data_sources"],     *)
(* then runs generate_intelligence_assessment, calculate_risk and the      *)
(* risk-level classification.                                              *)
(*                                                                         *)
(* Python values are modelled as follows.                                  *)
(*   str            a TLA+ string (Len, SubSeq and \o act on strings)      *)
(*   list           a sequence                                             *)
(*   dict           a function from keys to values (a record)              *)
(*   x or None      Null = <<>> for None, Some(x) = <<x>> otherwise        *)
(*   list-or-dict   a provider result is tagged: PyList(s) / PyDict(d)     *)
(*   weight 0.15    the integer 15 (hundredths); the overall score is      *)
(*                  therefore held in hundredths (65.0 is 6500). Python's  *)
(*                  float sum of the products agrees with the exact sum    *)
(*                  on the side of every tier threshold for all score      *)
(*                  values calculate_risk can assign.                      *)
(***************************************************************************)
EXTENDS Integers, Sequences, FiniteSets, TLC

VARIABLES
    pc,               \* position in the main analysis flow (app.py 377-446)
    search_type,      \* st.radio "Type": "Company" or "Person"
    outcome,          \* environment: what each provider call did ("ok"/"error")
    data_sources,     \* findings["data_sources"]
    news_intel,       \* module-level news_intel (app.py 386)
    intel_assessment, \* result of generate_intelligence_assessment
    scores,           \* calculate_risk: category -> [score, weight, factors]
    overall,          \* calculate_risk: weighted_score, in hundredths
    red_flags,        \* calculate_risk: red_flags
    verdict,          \* [level, signal, rec] of the classification
    first_run,        \* what an earlier run on the same input displayed, if any
    collectors        \* OSINTResearcher.collectors: the enabled collectors, in order

vars == <<pc, search_type, outcome, data_sources, news_intel,
          intel_assessment, scores, overall, red_flags, verdict, first_run, collectors>>

-----------------------------------------------------------------------------
(* Bounds of the model *)

MaxArticles == 2   \* longest article list NewsAPI returns
MaxCases == 6      \* longest litigation list the court collector returns
MaxOverflow == 2   \* most articles a long feed holds after its first 29 or 30

-----------------------------------------------------------------------------
(* Python helpers *)

Null == <<>>
Some(x) == <<x>>

PyList(s) == [py |-> "list", v |-> s]
PyDict(d) == [py |-> "dict", v |-> d]
IsList(x) == x.py = "list"
IsDict(x) == x.py = "dict"

\* d.get(k, default)
Get(d, k, default) == IF k \in DOMAIN d THEN d[k] ELSE default

\* (x or "") for an optional string
OrEmpty(x) == IF x = Null THEN "" ELSE x[1]

\* k in s  (substring containment)
Contains(s, k) ==
    \E i \in 1..(Len(s) - Len(k) + 1) : SubSeq(s, i, i + Len(k) - 1) = k

\* s.startswith(p)
StartsWith(s, p) == Len(s) >= Len(p) /\ SubSeq(s, 1, Len(p)) = p

UpperAlphabet == "ABCDEFGHIJKLMNOPQRSTUVWXYZ"
LowerAlphabet == "abcdefghijklmnopqrstuvwxyz"

UpperChars == {SubSeq(UpperAlphabet, i, i) : i \in 1..Len(UpperAlphabet)}

LowerOf ==
    [c \in UpperChars |->
        LET i == CHOOSE j \in 1..Len(UpperAlphabet) : SubSeq(UpperAlphabet, j, j) = c
        IN  SubSeq(LowerAlphabet, i, i)]

LowerChar(c) == IF c \in UpperChars THEN LowerOf[c] ELSE c

\* s.lower()
RECURSIVE Lower(_)
Lower(s) ==
    IF Len(s) = 0 THEN ""
    ELSE LowerChar(SubSeq(s, 1, 1)) \o Lower(SubSeq(s, 2, Len(s)))

\* sep.join(parts)
RECURSIVE Join(_, _)
Join(parts, sep) ==
    IF Len(parts) = 0 THEN ""
    ELSE IF Len(parts) = 1 THEN parts[1]
    ELSE parts[1] \o sep \o Join(Tail(parts), sep)

Pad3(n) ==
    IF n < 10 THEN "00" \o ToString(n)
    ELSE IF n < 100 THEN "0" \o ToString(n) ELSE ToString(n)

\* f"{amt:,.0f}" for a whole, non-negative amount
RECURSIVE Commas(_)
Commas(n) ==
    IF n < 1000 THEN ToString(n)
    ELSE Commas(n \div 1000) \o "," \o Pad3(n % 1000)

Max(a, b) == IF a >= b THEN a ELSE b

-----------------------------------------------------------------------------
(* Module-level configuration (app.py 18-22) *)

CRISIS_KEYWORDS ==
    << "bankruptcy", "layoff", "layoffs", "restructuring", "delisted",
       "SEC investigation", "fraud", "data breach", "hack", "cyber attack",
       "CEO resign", "CFO resign", "executive exodus", "stock crash",
       "default", "chapter 11", "chapter 7", "liquidation", "shutdown",
       "closing", "whistleblower", "scandal", "indictment", "arrested",
       "convicted", "settlement", "class action", "regulatory action",
       "fine", "penalty", "sanction" >>

GEOPOLITICAL_RISK_KEYWORDS ==
    << "china", "russia", "iran", "north korea", "tariff", "trade war",
       "export control", "sanctions", "national security", "cfius",
       "foreign investment", "espionage", "intellectual property theft",
       "forced technology transfer" >>

SUPPLY_CHAIN_KEYWORDS ==
    << "supply chain", "supplier", "shortage", "disruption", "single source",
       "manufacturing", "outsourced", "offshore", "vendor", "dependency" >>

\* st.text_input "Target Company/Person": one fixed non-empty target
Target == "Acme"

-----------------------------------------------------------------------------
(* analyze_news_intelligence (app.py 53-115) *)

\* articles[:30]
NewsWindow == 30

\* a slice that keeps the whole sequence
WholeSequence(s, n) == s

\* s[:n]
Prefix(s, n) == SubSeq(s, 1, IF Len(s) < n THEN Len(s) ELSE n)

\* content = title + " " + desc, both lower-cased, None read as ""
ArticleContent(article) ==
    Lower(OrEmpty(article.title)) \o " " \o Lower(OrEmpty(article.description))

\* the keywords of a taxonomy found in the content, in taxonomy order
Matches(keywords, content) ==
    SelectSeq(keywords, LAMBDA k : Contains(content, k))

CrisisMatches(article) == Matches(CRISIS_KEYWORDS, ArticleContent(article))
GeoMatches(article) == Matches(GEOPOLITICAL_RISK_KEYWORDS, ArticleContent(article))
SupplyMatches(article) == Matches(SUPPLY_CHAIN_KEYWORDS, ArticleContent(article))

\* what the three keyword loops find in one article
ArticleScan(article) ==
    [ crisis |-> CrisisMatches(article),
      geo    |-> GeoMatches(article),
      supply |-> SupplyMatches(article) ]

\* article_info["flags"] after the three keyword loops
ScanFlags(scan) ==
    scan.crisis
    \o [i \in 1..Len(scan.geo) |-> "GEO: " \o scan.geo[i]]
    \o [i \in 1..Len(scan.supply) |-> "SUPPLY: " \o scan.supply[i]]

ArticleFlags(article) == ScanFlags(ArticleScan(article))

\* building article_info raises on a null source (None.get) or a null
\* publishedAt (None[:10])
ArticleRaises(article) == article.source = Null \/ article.publishedAt = Null

ArticleInfo(article, flags) ==
    [ title  |-> article.title,
      source |-> Get(article.source[1], "name", "Unknown"),
      date   |-> Prefix(article.publishedAt[1], 10),
      url    |-> article.url,
      flags  |-> flags ]

\* sum(ns)
RECURSIVE Sum(_)
Sum(ns) == IF Len(ns) = 0 THEN 0 ELSE ns[1] + Sum(Tail(ns))

\* SentimentTier with inclusive comparisons
SentimentTierInclusive(crisis_count) ==
    IF crisis_count >= 10 THEN << <<"CRITICAL">>, 85 >>
    ELSE IF crisis_count >= 5 THEN << <<"HIGH">>, 70 >>
    ELSE IF crisis_count >= 2 THEN << <<"ELEVATED">>, 55 >>
    ELSE << <<>>, 50 >>

\* the tier of the crisis count: <<crisis_signals, sentiment_score>>
SentimentTier(crisis_count) ==
    IF crisis_count > 10
    THEN << <<"CRITICAL: " \o ToString(crisis_count) \o " crisis indicators in recent news">>, 85 >>
    ELSE IF crisis_count > 5
    THEN << <<"HIGH: " \o ToString(crisis_count) \o " crisis indicators detected">>, 70 >>
    ELSE IF crisis_count > 2
    THEN << <<"ELEVATED: " \o ToString(crisis_count) \o " concerning mentions">>, 55 >>
    ELSE << <<>>, 50 >>

GeoTier(geo_count) ==
    IF geo_count > 3
    THEN <<"Significant geopolitical exposure (" \o ToString(geo_count) \o " mentions)">>
    ELSE <<>>

SupplyTier(supply_count) ==
    IF supply_count > 2
    THEN <<"Supply chain concerns identified (" \o ToString(supply_count) \o " mentions)">>
    ELSE <<>>

\* whether analyze_news_intelligence(articles, company_name) raises
AnalyzeRaises(articles) ==
    \E i \in 1..Len(Prefix(articles, NewsWindow)) : ArticleRaises(articles[i])

\* the analysis dict it returns otherwise
analyze_news_intelligence(articles) ==
    LET window == Prefix(articles, NewsWindow)
        scans == [i \in 1..Len(window) |-> ArticleScan(window[i])] \o <<>>
        infos == [i \in 1..Len(window) |-> ArticleInfo(window[i], ScanFlags(scans[i]))]
        crisis_count == Sum([i \in 1..Len(window) |-> Len(scans[i].crisis)])
        geo_count == Sum([i \in 1..Len(window) |-> Len(scans[i].geo)])
        supply_count == Sum([i \in 1..Len(window) |-> Len(scans[i].supply)])
    IN  [ total_articles       |-> Len(articles),
          crisis_signals       |-> SentimentTier(crisis_count)[1],
          geopolitical_risks   |-> GeoTier(geo_count),
          supply_chain_risks   |-> SupplyTier(supply_count),
          sentiment_score      |-> SentimentTier(crisis_count)[2],
          key_articles         |-> SelectSeq(infos, LAMBDA a : Len(a.flags) > 0),
          intelligence_summary |-> "" ]

-----------------------------------------------------------------------------
(* generate_intelligence_assessment (app.py 117-198) *)

EmptyDict == <<>>

Range(s) == {s[i] : i \in DOMAIN s}

\* <<x>> when the condition holds: one conditional append
Opt(cond, x) == IF cond THEN <<x>> ELSE <<>>

\* the flags of the key articles that carry neither taxonomy prefix
AssessmentKeywords(key_articles) ==
    { f \in UNION {Range(key_articles[i].flags) : i \in DOMAIN key_articles} :
        ~StartsWith(f, "GEO:") /\ ~StartsWith(f, "SUPPLY:") }

FallbackSentence ==
    "No significant adverse indicators identified for " \o Target
    \o " in current analysis. Standard due diligence procedures recommended."

\* the conditions generate_intelligence_assessment tests, and the values its
\* sentences quote
AssessmentConditions(ds) ==
    LET intel == Get(ds, "news_intelligence", EmptyDict)
        court_data == Get(ds, "court_records", PyList(<<>>))
        fec_data == Get(ds, "fec_donations", PyDict(EmptyDict))
        sanctions == Get(ds, "sanctions", EmptyDict)
        key_articles == Get(intel, "key_articles", <<>>)
        found == IF key_articles # <<>> THEN AssessmentKeywords(key_articles) ELSE {}
        amt == IF IsDict(fec_data) THEN Get(fec_data.v, "total_amount", 0) ELSE 0
    IN  [ sanctioned     |-> Get(sanctions, "count", 0) > 0,
          crisis_signals |-> Get(intel, "crisis_signals", <<>>),
          bankrupt       |-> "bankruptcy" \in found \/ "chapter 11" \in found,
          cyber          |-> "data breach" \in found \/ "hack" \in found,
          layoff         |-> "layoff" \in found \/ "layoffs" \in found,
          fraud          |-> "SEC investigation" \in found \/ "fraud" \in found,
          exodus         |-> "CEO resign" \in found \/ "executive exodus" \in found,
          geo_risks      |-> Get(intel, "geopolitical_risks", <<>>),
          supply_risks   |-> Get(intel, "supply_chain_risks", <<>>),
          litigious      |-> IsList(court_data) /\ Len(court_data.v) > 5,
          cases          |-> IF IsList(court_data) THEN Len(court_data.v) ELSE 0,
          political      |-> IsDict(fec_data) /\ amt > 100000,
          amt            |-> amt ]

\* narrative_parts with the sanctions sentence appended last, the place
\* calculate_risk gives the sanctions rule
narrative_parts_sanctions_last(c) ==
    Opt(c.crisis_signals # <<>>, "Current media analysis indicates " \o Target \o " is experiencing significant operational distress. " \o (IF c.crisis_signals # <<>> THEN c.crisis_signals[1] ELSE "") \o ".")
    \o Opt(c.bankrupt, "CRITICAL: Bankruptcy indicators detected in recent news coverage. Company may be insolvent or approaching insolvency.")
    \o Opt(c.cyber, "ELEVATED RISK: Cybersecurity incident detected. Potential regulatory fines, litigation, and reputational damage.")
    \o Opt(c.layoff, "Company is undergoing workforce reduction, indicating financial pressure or strategic restructuring.")
    \o Opt(c.fraud, "CRITICAL: Regulatory investigation or fraud allegations detected. Significant legal and financial exposure.")
    \o Opt(c.exodus, "Leadership instability detected. Executive departures often precede or indicate deeper organizational issues.")
    \o Opt(c.geo_risks # <<>>, "Geopolitical exposure identified: " \o Join(c.geo_risks, ", ") \o ". Consider regulatory and market access risks.")
    \o Opt(c.supply_risks # <<>>, "Supply chain vulnerabilities noted: " \o Join(c.supply_risks, ", ") \o ". Assess concentration and disruption risk.")
    \o Opt(c.litigious, "Significant litigation history with " \o ToString(c.cases) \o " court records identified. Pattern analysis recommended.")
    \o Opt(c.political, "Substantial political activity ($" \o Commas(c.amt) \o " in contributions) indicates regulatory relationships and potential policy exposure.")
    \o Opt(c.sanctioned, "CRITICAL: " \o Target \o " has potential matches on global sanctions lists. All engagement must cease pending legal review.")

\* narrative_parts before the fallback (app.py 137-190)
narrative_parts(c) ==
    Opt(c.sanctioned, "CRITICAL: " \o Target \o " has potential matches on global sanctions lists. All engagement must cease pending legal review.")
    \o Opt(c.crisis_signals # <<>>, "Current media analysis indicates " \o Target \o " is experiencing significant operational distress. " \o (IF c.crisis_signals # <<>> THEN c.crisis_signals[1] ELSE "") \o ".")
    \o Opt(c.bankrupt, "CRITICAL: Bankruptcy indicators detected in recent news coverage. Company may be insolvent or approaching insolvency.")
    \o Opt(c.cyber, "ELEVATED RISK: Cybersecurity incident detected. Potential regulatory fines, litigation, and reputational damage.")
    \o Opt(c.layoff, "Company is undergoing workforce reduction, indicating financial pressure or strategic restructuring.")
    \o Opt(c.fraud, "CRITICAL: Regulatory investigation or fraud allegations detected. Significant legal and financial exposure.")
    \o Opt(c.exodus, "Leadership instability detected. Executive departures often precede or indicate deeper organizational issues.")
    \o Opt(c.geo_risks # <<>>, "Geopolitical exposure identified: " \o Join(c.geo_risks, ", ") \o ". Consider regulatory and market access risks.")
    \o Opt(c.supply_risks # <<>>, "Supply chain vulnerabilities noted: " \o Join(c.supply_risks, ", ") \o ". Assess concentration and disruption risk.")
    \o Opt(c.litigious, "Significant litigation history with " \o ToString(c.cases) \o " court records identified. Pattern analysis recommended.")
    \o Opt(c.political, "Substantial political activity ($" \o Commas(c.amt) \o " in contributions) indicates regulatory relationships and potential policy exposure.")

\* confidence reporting LOW when only the fallback sentence is produced
confidence_low_on_fallback(c) ==
    IF narrative_parts(c) = <<>> THEN "LOW"
    ELSE IF c.sanctioned THEN "HIGH" ELSE "MEDIUM"

\* assessment["confidence"]: "MEDIUM" as constructed (app.py 125), "HIGH" in
\* the sanctions branch (141), "MEDIUM" again on the fallback (194)
confidence(c) ==
    IF narrative_parts(c) = <<>> THEN "MEDIUM"
    ELSE IF c.sanctioned THEN "HIGH" ELSE "MEDIUM"

generate_intelligence_assessment(ds) ==
    LET c == AssessmentConditions(ds)
        parts == IF narrative_parts(c) = <<>> THEN <<FallbackSentence>> ELSE narrative_parts(c)
    IN  [ overall_narrative |-> Join(parts, " "),
          key_concerns |->
              Opt(c.sanctioned, "Sanctions exposure - potential criminal liability")
              \o c.crisis_signals
              \o Opt(c.bankrupt, "Bankruptcy/insolvency risk")
              \o Opt(c.cyber, "Cybersecurity/data breach exposure")
              \o Opt(c.fraud, "Regulatory/fraud investigation")
              \o Opt(c.exodus, "Leadership instability"),
          risk_factors |->
              Opt(c.layoff, "Workforce instability")
              \o c.geo_risks
              \o c.supply_risks
              \o Opt(c.litigious, "Litigation exposure (" \o ToString(c.cases) \o " cases)")
              \o Opt(c.political, "Political/regulatory exposure"),
          opportunities |-> <<>>,
          recommendation |-> "",
          confidence |-> confidence(c) ]

-----------------------------------------------------------------------------
(* calculate_risk (app.py 200-358) *)

Categories ==
    << "Leadership", "Financial", "Legal", "Regulatory", "Reputational",
       "Political", "Operational", "Geopolitical", "Supply Chain" >>

\* InitialScores with the Regulatory weight of another variant of the pipeline
InitialScoresOtherWeights ==
    ( "Leadership"   :> [score |-> 15, weight |-> 15, factors |-> <<>>] @@
      "Financial"    :> [score |-> 15, weight |-> 20, factors |-> <<>>] @@
      "Legal"        :> [score |-> 15, weight |-> 15, factors |-> <<>>] @@
      "Regulatory"   :> [score |-> 10, weight |-> 5,  factors |-> <<>>] @@
      "Reputational" :> [score |-> 15, weight |-> 10, factors |-> <<>>] @@
      "Political"    :> [score |-> 10, weight |-> 5,  factors |-> <<>>] @@
      "Operational"  :> [score |-> 10, weight |-> 10, factors |-> <<>>] @@
      "Geopolitical" :> [score |-> 10, weight |-> 10, factors |-> <<>>] @@
      "Supply Chain" :> [score |-> 10, weight |-> 5,  factors |-> <<>>] )

\* the scores dict as constructed (app.py 201-211); weights in hundredths
InitialScores ==
    ( "Leadership"   :> [score |-> 15, weight |-> 15, factors |-> <<>>] @@
      "Financial"    :> [score |-> 15, weight |-> 20, factors |-> <<>>] @@
      "Legal"        :> [score |-> 15, weight |-> 15, factors |-> <<>>] @@
      "Regulatory"   :> [score |-> 10, weight |-> 10, factors |-> <<>>] @@
      "Reputational" :> [score |-> 15, weight |-> 10, factors |-> <<>>] @@
      "Political"    :> [score |-> 10, weight |-> 5,  factors |-> <<>>] @@
      "Operational"  :> [score |-> 10, weight |-> 10, factors |-> <<>>] @@
      "Geopolitical" :> [score |-> 10, weight |-> 10, factors |-> <<>>] @@
      "Supply Chain" :> [score |-> 10, weight |-> 5,  factors |-> <<>>] )

\* the working state of calculate_risk: [scores, red_flags]
SetScore(st, cat, v) == [st EXCEPT !.scores[cat].score = v]
RaiseScore(st, cat, v) == [st EXCEPT !.scores[cat].score = Max(@, v)]
AddFactor(st, cat, text) == [st EXCEPT !.scores[cat].factors = Append(@, text)]
AddFlag(st, flag) == [st EXCEPT !.red_flags = Append(@, flag)]

RedFlag(severity, category, finding, so_what, action) ==
    [ severity |-> severity, category |-> category, finding |-> finding,
      so_what |-> so_what, action |-> action ]

\* crisis_keywords_found: every flag of every key article, lower-cased
RiskKeywords(key_articles) ==
    { Lower(f) : f \in UNION {Range(key_articles[i].flags) : i \in DOMAIN key_articles} }

AnyIn(keywords, found) == \E k \in keywords : k \in found

\* RuleSentiment with the lower tier starting at the baseline sentiment
RuleSentimentFromBaseline(st, sentiment) ==
    IF sentiment >= 50
    THEN SetScore(
           AddFactor(SetScore(st, "Reputational", 70), "Reputational",
                     "HIGH: Significant negative news coverage"),
           "Operational", 55)
    ELSE st

\* app.py 218-233
RuleSentiment(st, sentiment) ==
    IF sentiment >= 80
    THEN AddFlag(
           SetScore(SetScore(
             AddFactor(SetScore(st, "Reputational", 90), "Reputational",
                       "CRITICAL: Major crisis detected in news"),
             "Operational", 75), "Financial", 80),
           RedFlag("CRITICAL", "Corporate Crisis",
             "Multiple crisis indicators detected in current news coverage",
             "Company appears to be in active crisis. News analysis shows bankruptcy, regulatory action, or major operational failure indicators. Investment at this time carries extreme risk of total loss.",
             "HALT all investment activity. If already invested, engage crisis management and exit strategy teams immediately."))
    ELSE IF sentiment >= 65
    THEN SetScore(
           AddFactor(SetScore(st, "Reputational", 70), "Reputational",
                     "HIGH: Significant negative news coverage"),
           "Operational", 55)
    ELSE st

\* RuleBankruptcy appending one flag for each bankruptcy keyword found
RuleBankruptcyPerKeyword(st, found) ==
    LET hits == SelectSeq(<<"bankruptcy", "chapter 11", "chapter 7">>, LAMBDA k : k \in found)
        flag == RedFlag("CRITICAL", "Financial",
                  "Bankruptcy or insolvency indicators in recent news", "", "")
    IN  IF hits # <<>>
        THEN [ AddFactor(SetScore(st, "Financial", 95), "Financial",
                         "CRITICAL: Bankruptcy indicators")
               EXCEPT !.red_flags = @ \o [i \in 1..Len(hits) |-> flag] ]
        ELSE st

\* app.py 240-249
RuleBankruptcy(st, found) ==
    IF "bankruptcy" \in found \/ "chapter 11" \in found \/ "chapter 7" \in found
    THEN AddFlag(
           AddFactor(SetScore(st, "Financial", 95), "Financial",
                     "CRITICAL: Bankruptcy indicators"),
           RedFlag("CRITICAL", "Financial",
             "Bankruptcy or insolvency indicators in recent news",
             "Company may be insolvent or entering bankruptcy proceedings. All unsecured investments likely to result in total loss. Secured positions may face significant impairment.",
             "Do not invest. If existing exposure, engage restructuring counsel immediately."))
    ELSE st

\* app.py 251-261
RuleCyber(st, found) ==
    IF "data breach" \in found \/ "hack" \in found \/ "cyber attack" \in found
    THEN AddFlag(
           AddFactor(
             RaiseScore(RaiseScore(st, "Operational", 75), "Regulatory", 65),
             "Operational", "Cybersecurity incident detected"),
           RedFlag("HIGH", "Cybersecurity",
             "Data breach or cyber attack reported",
             "Cybersecurity incidents typically result in: regulatory fines ($10M-$500M+ for major breaches), class action litigation, customer churn (15-25%), and long-term brand damage. GDPR/CCPA exposure if consumer data involved.",
             "Request incident response report, quantify affected records, assess regulatory exposure by jurisdiction."))
    ELSE st

\* app.py 263-272
RuleLeadership(st, found) ==
    IF AnyIn({"ceo resign", "cfo resign", "executive exodus"}, found)
    THEN AddFlag(
           AddFactor(SetScore(st, "Leadership", 80), "Leadership",
                     "Executive departure/instability"),
           RedFlag("HIGH", "Leadership",
             "Executive leadership changes or departures",
             "C-suite departures often precede disclosure of material issues. 67% of sudden CEO departures are followed by negative earnings surprises within 2 quarters. Institutional knowledge loss impacts operational continuity.",
             "Investigate circumstances of departure. Review D&O insurance. Assess bench strength and succession planning."))
    ELSE st

\* app.py 274-284
RuleInvestigation(st, found) ==
    IF AnyIn({"sec investigation", "fraud", "indictment", "convicted"}, found)
    THEN AddFlag(
           AddFactor(SetScore(SetScore(st, "Regulatory", 90), "Legal", 85),
                     "Regulatory", "CRITICAL: Regulatory/criminal investigation"),
           RedFlag("CRITICAL", "Legal/Regulatory",
             "Regulatory investigation or fraud allegations",
             "SEC investigations result in average settlements of $50M+ for public companies. Criminal indictments can trigger immediate contract terminations, bank covenant violations, and management distraction lasting 2-4 years.",
             "HALT investment. Engage securities litigation counsel for exposure assessment."))
    ELSE st

\* RuleLayoff assigning 55 instead of max(current, 55)
RuleLayoffAssign(st, found) ==
    IF AnyIn({"layoff", "layoffs", "restructuring"}, found)
    THEN AddFactor(SetScore(st, "Operational", 55), "Operational",
                   "Workforce restructuring underway")
    ELSE st

\* app.py 286-288
RuleLayoff(st, found) ==
    IF AnyIn({"layoff", "layoffs", "restructuring"}, found)
    THEN AddFactor(RaiseScore(st, "Operational", 55), "Operational",
                   "Workforce restructuring underway")
    ELSE st

\* app.py 290-303
RuleGeopolitical(st, geo_risks) ==
    IF geo_risks # <<>>
    THEN LET base == AddFactor(SetScore(st, "Geopolitical", 65), "Geopolitical",
                               "International exposure concerns")
         IN  IF \E i \in DOMAIN geo_risks : Contains(Lower(geo_risks[i]), "china")
             THEN AddFlag(
                    AddFactor(SetScore(base, "Geopolitical", 75), "Geopolitical",
                              "China-related risk exposure"),
                    RedFlag("MEDIUM", "Geopolitical",
                      "China-related business exposure identified",
                      "China exposure creates: tariff risk, IP theft concerns, CFIUS review requirements for M&A, potential sanctions/export control issues, and ESG concerns for some institutional investors.",
                      "Map China revenue/supply chain dependency. Assess CFIUS implications. Review export control compliance."))
             ELSE base
    ELSE st

\* app.py 305-308
RuleSupplyChain(st, supply_risks) ==
    IF supply_risks # <<>>
    THEN AddFactor(SetScore(st, "Supply Chain", 60), "Supply Chain",
                   "Supply chain vulnerabilities noted")
    ELSE st

\* RuleLitigation scoring count x 20 with the cap at 100 left out
RuleLitigationUncapped(st, court) ==
    IF IsList(court) /\ Len(court.v) > 2
    THEN AddFactor(RaiseScore(st, "Legal", Len(court.v) * 20), "Legal",
                   ToString(Len(court.v)) \o " litigation matters")
    ELSE st

\* RuleLitigation with inclusive thresholds
RuleLitigationInclusive(st, court) ==
    IF IsList(court)
    THEN LET count == Len(court.v)
         IN  IF count >= 5
             THEN AddFlag(
                    AddFactor(RaiseScore(st, "Legal", 75), "Legal",
                              ToString(count) \o " litigation matters"),
                    RedFlag("HIGH", "Legal",
                      ToString(count) \o " litigation matters identified", "", ""))
             ELSE IF count >= 2
             THEN AddFactor(RaiseScore(st, "Legal", 50), "Legal",
                            ToString(count) \o " litigation matters")
             ELSE st
    ELSE st

\* RuleLitigation assigning the tier value instead of max(current, value)
RuleLitigationAssign(st, court) ==
    IF IsList(court) /\ Len(court.v) > 5
    THEN AddFlag(AddFactor(SetScore(st, "Legal", 75), "Legal",
                           ToString(Len(court.v)) \o " litigation matters"),
                 RedFlag("HIGH", "Legal",
                         ToString(Len(court.v)) \o " litigation matters identified", "", ""))
    ELSE IF IsList(court) /\ Len(court.v) > 2
    THEN AddFactor(SetScore(st, "Legal", 50), "Legal",
                   ToString(Len(court.v)) \o " litigation matters")
    ELSE st

\* app.py 310-325
RuleLitigation(st, court) ==
    IF IsList(court)
    THEN LET count == Len(court.v)
         IN  IF count > 5
             THEN AddFlag(
                    AddFactor(RaiseScore(st, "Legal", 75), "Legal",
                              ToString(count) \o " litigation matters"),
                    RedFlag("HIGH", "Legal",
                      ToString(count) \o " litigation matters identified",
                      "High litigation volume indicates potential operational issues, regulatory non-compliance, or aggressive business practices. Each active case represents legal cost of $50K-$500K+ and management distraction.",
                      "Request litigation schedule with exposure estimates. Identify patterns (employment, IP, contract, regulatory)."))
             ELSE IF count > 2
             THEN AddFactor(RaiseScore(st, "Legal", 50), "Legal",
                            ToString(count) \o " litigation matters")
             ELSE st
    ELSE st

\* RulePolitical reading an error marker as elevated political exposure
RulePoliticalFailClosed(st, fec) ==
    IF IsDict(fec) /\ "error" \in DOMAIN fec.v
    THEN AddFactor(SetScore(st, "Political", 50), "Political", "FEC data unavailable")
    ELSE st

\* RulePolitical with inclusive thresholds
RulePoliticalInclusive(st, fec) ==
    IF IsDict(fec)
    THEN LET amt == Get(fec.v, "total_amount", 0)
         IN  IF amt >= 500000
             THEN AddFlag(
                    AddFactor(SetScore(st, "Political", 75), "Political",
                              "$" \o Commas(amt) \o " political contributions"),
                    RedFlag("MEDIUM", "Political",
                      "$" \o Commas(amt) \o " in political contributions", "", ""))
             ELSE IF amt >= 100000
             THEN AddFactor(SetScore(st, "Political", 50), "Political",
                            "$" \o Commas(amt) \o " political contributions")
             ELSE st
    ELSE st

\* RulePolitical totalling the contributions of a donor list
RulePoliticalSummingList(st, fec) ==
    LET amt == IF IsDict(fec) THEN Get(fec.v, "total_amount", 0)
               ELSE Sum([i \in DOMAIN fec.v |-> fec.v[i].contribution_amount])
    IN  IF amt > 500000
        THEN AddFlag(
               AddFactor(SetScore(st, "Political", 75), "Political",
                         "$" \o Commas(amt) \o " political contributions"),
               RedFlag("MEDIUM", "Political",
                 "$" \o Commas(amt) \o " in political contributions", "", ""))
        ELSE IF amt > 100000
        THEN AddFactor(SetScore(st, "Political", 50), "Political",
                       "$" \o Commas(amt) \o " political contributions")
        ELSE st

\* app.py 327-342
RulePolitical(st, fec) ==
    IF IsDict(fec)
    THEN LET amt == Get(fec.v, "total_amount", 0)
         IN  IF amt > 500000
             THEN AddFlag(
                    AddFactor(SetScore(st, "Political", 75), "Political",
                              "$" \o Commas(amt) \o " political contributions"),
                    RedFlag("MEDIUM", "Political",
                      "$" \o Commas(amt) \o " in political contributions",
                      "Heavy political spending indicates regulatory dependencies. Administration changes can impact: government contracts, regulatory approvals, tax treatment, and subsidy eligibility. Also creates PR risk if contributions become controversial.",
                      "Map regulatory dependencies. Stress test business model against policy change scenarios."))
             ELSE IF amt > 100000
             THEN AddFactor(SetScore(st, "Political", 50), "Political",
                            "$" \o Commas(amt) \o " political contributions")
             ELSE st
    ELSE st

\* RuleSanctions with the override written as a raise to the investigation value
RuleSanctionsAsRaise(st, sanctions) ==
    IF Get(sanctions, "count", 0) > 0
    THEN AddFlag(
           AddFactor(RaiseScore(st, "Regulatory", 90), "Regulatory", "SANCTIONS MATCH"),
           RedFlag("HIGH", "Sanctions", "POTENTIAL MATCH ON GLOBAL SANCTIONS LIST", "", ""))
    ELSE st

\* RuleSanctions raising the Reputational score as well
RuleSanctionsAndReputation(st, sanctions) ==
    IF Get(sanctions, "count", 0) > 0
    THEN AddFlag(
           AddFactor(SetScore(RaiseScore(st, "Reputational", 90), "Regulatory", 100),
                     "Regulatory", "SANCTIONS MATCH"),
           RedFlag("CRITICAL", "Sanctions", "POTENTIAL MATCH ON GLOBAL SANCTIONS LIST", "", ""))
    ELSE st

\* RuleSanctions assigning 90 instead of 100
RuleSanctionsNinety(st, sanctions) ==
    IF Get(sanctions, "count", 0) > 0
    THEN AddFlag(
           AddFactor(SetScore(st, "Regulatory", 90), "Regulatory", "SANCTIONS MATCH"),
           RedFlag("CRITICAL", "Sanctions", "POTENTIAL MATCH ON GLOBAL SANCTIONS LIST", "", ""))
    ELSE st

\* app.py 344-354
RuleSanctions(st, sanctions) ==
    IF Get(sanctions, "count", 0) > 0
    THEN AddFlag(
           AddFactor(SetScore(st, "Regulatory", 100), "Regulatory", "SANCTIONS MATCH"),
           RedFlag("CRITICAL", "Sanctions",
             "POTENTIAL MATCH ON GLOBAL SANCTIONS LIST",
             "IMMEDIATE STOP. Engaging with sanctioned entities creates criminal liability for all transaction parties. Penalties include: imprisonment up to 20 years, fines of $1M+ per violation, and permanent reputational damage.",
             "CEASE ALL ACTIVITY. Engage OFAC counsel immediately. Do not proceed under any circumstances until cleared."))
    ELSE st

\* WeightedScore rounded to a whole score
WeightedScoreRounded(sc) ==
    ((Sum([i \in 1..Len(Categories) |-> sc[Categories[i]].score * sc[Categories[i]].weight])
      + 50) \div 100) * 100

\* app.py 356: sum(scores[cat]["score"] * scores[cat]["weight"] for cat in scores)
WeightedScore(sc) ==
    Sum([i \in 1..Len(Categories) |-> sc[Categories[i]].score * sc[Categories[i]].weight])

\* FreshResult with a red-flag list that outlives the call
ResultCarriedOver == [scores |-> InitialScores, red_flags |-> red_flags]

\* the scores dict and the red_flags list calculate_risk constructs on entry
FreshResult == [scores |-> InitialScores, red_flags |-> <<>>]

\* the rules in the order calculate_risk applies them
ApplyRules(ds) ==
    LET intel == Get(ds, "news_intelligence", EmptyDict)
        found == RiskKeywords(Get(intel, "key_articles", <<>>))
        s0  == FreshResult
        s1  == RuleSentiment(s0, Get(intel, "sentiment_score", 50))
        s2  == RuleBankruptcy(s1, found)
        s3  == RuleCyber(s2, found)
        s4  == RuleLeadership(s3, found)
        s5  == RuleInvestigation(s4, found)
        s6  == RuleLayoff(s5, found)
        s7  == RuleGeopolitical(s6, Get(intel, "geopolitical_risks", <<>>))
        s8  == RuleSupplyChain(s7, Get(intel, "supply_chain_risks", <<>>))
        s9  == RuleLitigation(s8, Get(ds, "court_records", PyList(<<>>)))
        s10 == RulePolitical(s9, Get(ds, "fec_donations", PyDict(EmptyDict)))
    IN  RuleSanctions(s10, Get(ds, "sanctions", EmptyDict))

\* return scores, weighted_score, red_flags
calculate_risk(ds) ==
    LET st == ApplyRules(ds)
    IN  [ scores |-> st.scores,
          weighted_score |-> WeightedScore(st.scores),
          red_flags |-> st.red_flags ]

-----------------------------------------------------------------------------
(* Risk-level classification (app.py 432-446); overall in hundredths *)

\* Classify with strict comparisons
ClassifyStrict(score) ==
    IF score > 65 * 100
    THEN [ level |-> "CRITICAL RISK", signal |-> "DO NOT PROCEED",
           rec |-> "WALK AWAY. Multiple critical risk factors identified. Investment not recommended under any terms." ]
    ELSE IF score > 50 * 100
    THEN [ level |-> "HIGH RISK", signal |-> "NOT RECOMMENDED",
           rec |-> "HIGH CAUTION. Significant risks require mitigation or substantial price adjustment. Consider walking away." ]
    ELSE IF score > 35 * 100
    THEN [ level |-> "ELEVATED RISK", signal |-> "CONDITIONAL",
           rec |-> "PROCEED WITH CAUTION. Address flagged items before closing. Enhanced DD required." ]
    ELSE IF score > 20 * 100
    THEN [ level |-> "MODERATE RISK", signal |-> "PROCEED WITH MONITORING",
           rec |-> "Acceptable risk profile. Standard DD sufficient with ongoing monitoring of noted items." ]
    ELSE [ level |-> "LOW RISK", signal |-> "PROCEED",
           rec |-> "No significant concerns identified. Standard due diligence sufficient." ]

Classify(score) ==
    IF score >= 65 * 100
    THEN [ level |-> "CRITICAL RISK", signal |-> "DO NOT PROCEED",
           rec |-> "WALK AWAY. Multiple critical risk factors identified. Investment not recommended under any terms." ]
    ELSE IF score >= 50 * 100
    THEN [ level |-> "HIGH RISK", signal |-> "NOT RECOMMENDED",
           rec |-> "HIGH CAUTION. Significant risks require mitigation or substantial price adjustment. Consider walking away." ]
    ELSE IF score >= 35 * 100
    THEN [ level |-> "ELEVATED RISK", signal |-> "CONDITIONAL",
           rec |-> "PROCEED WITH CAUTION. Address flagged items before closing. Enhanced DD required." ]
    ELSE IF score >= 20 * 100
    THEN [ level |-> "MODERATE RISK", signal |-> "PROCEED WITH MONITORING",
           rec |-> "Acceptable risk profile. Standard DD sufficient with ongoing monitoring of noted items." ]
    ELSE [ level |-> "LOW RISK", signal |-> "PROCEED",
           rec |-> "No significant concerns identified. Standard due diligence sufficient." ]

-----------------------------------------------------------------------------
(* What the providers can return *)

Article(title, description, source, publishedAt) ==
    [ title |-> title, description |-> description, source |-> source,
      publishedAt |-> publishedAt, url |-> "https://news.example/a" ]

Reuters == Some([name |-> "Reuters"])
Stamp == Some("2025-01-15T08:00:00Z")

\* NewsAPI articles: a null title or description is common, and the last one
\* carries a null source
ArticleFraud == Article(Some("CEO resigns amid Fraud probe"), Null, Reuters, Stamp)
ArticleBreach == Article(Some("Executive exodus after data breach"), Some(""), Reuters, Stamp)
ArticleLayoffs ==
    Article(Some("Layoffs and restructuring after scandal"), Some("Settlement reached"), Reuters, Stamp)
ArticleBankrupt ==
    Article(Some("Bankruptcy and layoffs follow hack"),
            Some("Chapter 11 filing after indictment"), Reuters, Stamp)
ArticleChina == Article(Some("China tariff hits supplier"), Some("Vendor warns"), Reuters, Stamp)
ArticleNoSource == Article(Null, Some("Quarterly results"), Null, Stamp)
ArticleConvicted ==
    Article(Some("Former director convicted after indictment"), Null, Reuters, Stamp)

Articles ==
    { ArticleFraud, ArticleBreach, ArticleLayoffs, ArticleBankrupt, ArticleChina,
      ArticleNoSource }

ArticleLists == UNION {[1..n -> Articles] : n \in 0..MaxArticles}

\* CourtRecordsCollector.search_company / search_person: a list of cases
CaseList(n) == [i \in 1..n |-> [case_name |-> "Case " \o ToString(i), court |-> "", date_filed |-> ""]]

\* FECDonationsCollector.search_by_employer: a summary dict
FecAmounts == {0, 100000, 100001, 500000, 500001}
FecSummary(total) == [total_contributions |-> IF total = 0 THEN 0 ELSE 1, total_amount |-> total]

\* FECDonationsCollector.search_donor: a list of contributions
FecDonorLists == {<<>>, <<[contributor_name |-> Target, contribution_amount |-> 600000]>>}

ErrorMarker == PyDict([error |-> "Exception"])

Providers == {"news", "sec_edgar", "court_records", "fec_donations", "sanctions", "news_search"}

-----------------------------------------------------------------------------
(* The analysis run (app.py 377-446) *)

Init ==
    /\ pc = "news"
    /\ search_type \in {"Company", "Person"}
    /\ outcome = EmptyDict
    /\ data_sources = EmptyDict
    /\ news_intel = EmptyDict
    /\ intel_assessment = EmptyDict
    /\ scores = EmptyDict
    /\ overall = 0
    /\ red_flags = <<>>
    /\ verdict = EmptyDict
    /\ first_run = [completed |-> FALSE]
    /\ collectors = <<>>

Store(key, value) == data_sources' = (key :> value) @@ data_sources
Record(provider, o) == outcome' = (provider :> o) @@ outcome

\* get_current_news (app.py 35-51): the articles on status 200, [] on any
\* other status or exception; then analyze_news_intelligence, outside any try
News ==
    /\ pc = "news"
    /\ \E o \in {"ok", "error"}, fetched \in ArticleLists :
         /\ o = "error" => fetched = <<>>
         /\ Record("news", o)
         /\ IF AnalyzeRaises(fetched)
            THEN /\ pc' = "raised"
                 /\ UNCHANGED <<data_sources, news_intel>>
            ELSE /\ pc' = "sec"
                 /\ news_intel' = analyze_news_intelligence(fetched)
                 /\ data_sources' = ("news_intelligence" :> news_intel'
                                     @@ "news_articles" :> fetched @@ data_sources)
    /\ UNCHANGED <<search_type, intel_assessment, scores, overall, red_flags, verdict, first_run, collectors>>

\* app.py 390-395
SecEdgar ==
    /\ pc = "sec"
    /\ \E o \in {"ok", "error"} :
         /\ Record("sec_edgar", o)
         /\ Store("sec_edgar",
                  IF o = "ok" THEN PyDict([company_info |-> Null]) ELSE ErrorMarker)
    /\ pc' = "court"
    /\ UNCHANGED <<search_type, news_intel, intel_assessment, scores, overall, red_flags, verdict, first_run, collectors>>

\* app.py 397-402
CourtRecords ==
    /\ pc = "court"
    /\ \/ \E n \in 0..MaxCases :
            /\ Record("court_records", "ok")
            /\ Store("court_records", PyList(CaseList(n)))
       \/ /\ Record("court_records", "error")
          /\ Store("court_records", ErrorMarker)
    /\ pc' = "fec"
    /\ UNCHANGED <<search_type, news_intel, intel_assessment, scores, overall, red_flags, verdict, first_run, collectors>>

\* app.py 404-409: search_by_employer for a company, search_donor for a person
FecDonations ==
    /\ pc = "fec"
    /\ \/ /\ search_type = "Company"
          /\ \E total \in FecAmounts :
               /\ Record("fec_donations", "ok")
               /\ Store("fec_donations", PyDict(FecSummary(total)))
       \/ /\ search_type # "Company"
          /\ \E donations \in FecDonorLists :
               /\ Record("fec_donations", "ok")
               /\ Store("fec_donations", PyList(donations))
       \/ /\ Record("fec_donations", "error")
          /\ Store("fec_donations", ErrorMarker)
    /\ pc' = "sanctions"
    /\ UNCHANGED <<search_type, news_intel, intel_assessment, scores, overall, red_flags, verdict, first_run, collectors>>

\* check_sanctions (app.py 24-33, 411-413)
MatchCounts == {0, 2}
SanctionsResult(n) == [matches |-> [i \in 1..n |-> [id |-> i]], count |-> n]

Sanctions ==
    /\ pc = "sanctions"
    /\ \/ \E n \in MatchCounts :
            /\ Record("sanctions", "ok")
            /\ Store("sanctions", SanctionsResult(n))
       \/ /\ Record("sanctions", "error")
          /\ Store("sanctions", SanctionsResult(0))
    /\ pc' = "gdelt"
    /\ UNCHANGED <<search_type, news_intel, intel_assessment, scores, overall, red_flags, verdict, first_run, collectors>>

\* app.py 415-420
NewsSearch ==
    /\ pc = "gdelt"
    /\ \E o \in {"ok", "error"} :
         /\ Record("news_search", o)
         /\ Store("news_search",
                  IF o = "ok" THEN PyDict([total_articles |-> 0]) ELSE ErrorMarker)
    /\ pc' = "assess"
    /\ UNCHANGED <<search_type, news_intel, intel_assessment, scores, overall, red_flags, verdict, first_run, collectors>>

\* app.py 424-425
Assess ==
    /\ pc = "assess"
    /\ intel_assessment' = generate_intelligence_assessment(data_sources)
    /\ pc' = "score"
    /\ UNCHANGED <<search_type, outcome, data_sources, news_intel, scores, overall, red_flags, verdict, first_run, collectors>>

\* app.py 427
Score ==
    /\ pc = "score"
    /\ LET r == calculate_risk(data_sources)
       IN  /\ scores' = r.scores
           /\ overall' = r.weighted_score
           /\ red_flags' = r.red_flags
    /\ pc' = "classify"
    /\ UNCHANGED <<search_type, outcome, data_sources, news_intel, intel_assessment, verdict, first_run, collectors>>

\* app.py 432-446
RiskLevel ==
    /\ pc = "classify"
    /\ verdict' = Classify(overall)
    /\ pc' = "done"
    /\ UNCHANGED <<search_type, outcome, data_sources, news_intel, intel_assessment,
                   scores, overall, red_flags, first_run, collectors>>

Next ==
    \/ News
    \/ SecEdgar
    \/ CourtRecords
    \/ FecDonations
    \/ Sanctions
    \/ NewsSearch
    \/ Assess
    \/ Score
    \/ RiskLevel

Spec == Init /\ [][Next]_vars

-----------------------------------------------------------------------------
(* Properties *)

\* calculate_risk has returned
Scored == pc \in {"classify", "done"}

FlagsOf(category) == SelectSeq(red_flags, LAMBDA f : f.category = category)

HasFlag(category) == \E i \in DOMAIN red_flags : red_flags[i].category = category

\* C1: a sanctions count above 0 forces Regulatory to exactly 100 and puts
\* exactly one flag of category "Sanctions" in the list, of severity CRITICAL,
\* whatever the other inputs are; a count of 0 puts none.
SanctionsInvariant ==
    Scored =>
      LET count == Get(data_sources["sanctions"], "count", 0)
      IN  /\ count > 0 =>
               /\ scores["Regulatory"].score = 100
               /\ Len(FlagsOf("Sanctions")) = 1
               /\ FlagsOf("Sanctions")[1].severity = "CRITICAL"
          /\ count = 0 => ~HasFlag("Sanctions")

\* a run with a sanctions match whose news had already set Regulatory to 90
SanctionsWitness ==
    /\ pc = "done"
    /\ data_sources["sanctions"].count > 0
    /\ HasFlag("Legal/Regulatory")
    /\ HasFlag("Cybersecurity")

\* C2: the overall score is the sum over the nine categories of
\* final score x weight, neither rounded nor clamped.
OverallIsWeightedSum ==
    Scored =>
      overall =   scores["Leadership"].score * scores["Leadership"].weight
                + scores["Financial"].score * scores["Financial"].weight
                + scores["Legal"].score * scores["Legal"].weight
                + scores["Regulatory"].score * scores["Regulatory"].weight
                + scores["Reputational"].score * scores["Reputational"].weight
                + scores["Political"].score * scores["Political"].weight
                + scores["Operational"].score * scores["Operational"].weight
                + scores["Geopolitical"].score * scores["Geopolitical"].weight
                + scores["Supply Chain"].score * scores["Supply Chain"].weight

\* a run whose overall score is not a whole number and whose last rule fired
OverallWitness ==
    /\ pc = "done"
    /\ overall % 100 # 0
    /\ scores["Regulatory"].score = 100
    /\ scores["Political"].score = 75

\* C3: the category set is the fixed nine, no rule changes a weight, and the
\* weights sum to 1.0 (100 hundredths).
WeightsFixed ==
    Scored =>
      /\ DOMAIN scores = { "Leadership", "Financial", "Legal", "Regulatory",
                           "Reputational", "Political", "Operational",
                           "Geopolitical", "Supply Chain" }
      /\ scores["Leadership"].weight = 15
      /\ scores["Financial"].weight = 20
      /\ scores["Legal"].weight = 15
      /\ scores["Regulatory"].weight = 10
      /\ scores["Reputational"].weight = 10
      /\ scores["Political"].weight = 5
      /\ scores["Operational"].weight = 10
      /\ scores["Geopolitical"].weight = 10
      /\ scores["Supply Chain"].weight = 5
      /\ Sum([i \in 1..Len(Categories) |-> scores[Categories[i]].weight]) = 100

\* a run in which at least six categories left their baseline
WeightsWitness ==
    /\ pc = "done"
    /\ Cardinality({c \in DOMAIN scores : scores[c].factors # <<>>}) >= 6

\* C4: every category score and the overall score lie in [0,100].
ScoresInRange ==
    Scored =>
      /\ \A c \in DOMAIN scores : scores[c].score >= 0 /\ scores[c].score <= 100
      /\ overall >= 0 /\ overall <= 100 * 100

\* a run with the largest litigation list, a sanctions match and a bankruptcy
RangeWitness ==
    /\ pc = "done"
    /\ scores["Regulatory"].score = 100
    /\ scores["Financial"].score = 95
    /\ IsList(data_sources["court_records"])
    /\ Len(data_sources["court_records"].v) >= 6

AddedKeywords == {"fine", "layoffs", "bankruptcy", "hack", "fraud", "executive exodus"}

\* the article lists that differ from the fetched one by one more keyword
\* occurrence: in the description of one article, or in one more article
MoreEvidence(fetched) ==
    { [fetched EXCEPT ![i].description = Some(OrEmpty(@) \o " " \o k)] :
        <<i, k>> \in { x \in (DOMAIN fetched) \X AddedKeywords :
                         ~Contains(ArticleContent(fetched[x[1]]), x[2]) } }
    \cup (IF Len(fetched) < NewsWindow
          THEN {Append(fetched, Article(Some(k), Null, Reuters, Stamp)) : k \in AddedKeywords}
          ELSE {})

OtherCourts == <<PyList(CaseList(0)), PyList(CaseList(MaxCases)), ErrorMarker>>
OtherFecs == <<PyDict(FecSummary(0)), PyDict(FecSummary(500001)), ErrorMarker>>

RiskWith(intel, court, fec, count) ==
    calculate_risk( "news_intelligence" :> intel @@ "court_records" :> court
                    @@ "fec_donations" :> fec @@ "sanctions" :> SanctionsResult(count) )

FlagSet(intel) == UNION {Range(intel.key_articles[i].flags) : i \in DOMAIN intel.key_articles}

NeverLower(before, after) ==
    /\ after.scores["Financial"].score >= before.scores["Financial"].score
    /\ after.scores["Operational"].score >= before.scores["Operational"].score
    /\ after.scores["Reputational"].score >= before.scores["Reputational"].score
    /\ after.weighted_score >= before.weighted_score

\* C5: one more crisis-keyword match in the news (an equal or higher
\* sentiment, a superset of flags) never lowers the Financial, Operational or
\* Reputational score nor the overall score, whatever the other sources hold.
MonotoneInCrisisEvidence ==
    pc = "sec" =>
      \A more \in MoreEvidence(data_sources["news_articles"]) :
        LET intel == analyze_news_intelligence(more)
        IN  /\ intel.sentiment_score >= news_intel.sentiment_score
            /\ FlagSet(news_intel) \subseteq FlagSet(intel)
            /\ \A c \in DOMAIN OtherCourts, f \in DOMAIN OtherFecs, n \in MatchCounts :
                 NeverLower(RiskWith(news_intel, OtherCourts[c], OtherFecs[f], n),
                            RiskWith(intel, OtherCourts[c], OtherFecs[f], n))

\* news with 10 crisis matches (sentiment 70) that one more match lifts to
\* the top tier, raising the Financial score and the overall score
MonotoneWitness ==
    /\ pc = "sec"
    /\ news_intel.sentiment_score = 70
    /\ \E more \in MoreEvidence(data_sources["news_articles"]) :
         LET after == RiskWith(analyze_news_intelligence(more), OtherCourts[1], OtherFecs[1], 0)
             before == RiskWith(news_intel, OtherCourts[1], OtherFecs[1], 0)
         IN  /\ analyze_news_intelligence(more).sentiment_score = 85
             /\ after.scores["Financial"].score > before.scores["Financial"].score
             /\ after.weighted_score > before.weighted_score

TierOf(score) ==
    IF score >= 6500 THEN "CRITICAL RISK"
    ELSE IF score >= 5000 THEN "HIGH RISK"
    ELSE IF score >= 3500 THEN "ELEVATED RISK"
    ELSE IF score >= 2000 THEN "MODERATE RISK"
    ELSE "LOW RISK"

SignalOf(level) ==
    CASE level = "CRITICAL RISK" -> "DO NOT PROCEED"
      [] level = "HIGH RISK" -> "NOT RECOMMENDED"
      [] level = "ELEVATED RISK" -> "CONDITIONAL"
      [] level = "MODERATE RISK" -> "PROCEED WITH MONITORING"
      [] level = "LOW RISK" -> "PROCEED"

RecOf(level) ==
    CASE level = "CRITICAL RISK" -> "WALK AWAY. Multiple critical risk factors identified. Investment not recommended under any terms."
      [] level = "HIGH RISK" -> "HIGH CAUTION. Significant risks require mitigation or substantial price adjustment. Consider walking away."
      [] level = "ELEVATED RISK" -> "PROCEED WITH CAUTION. Address flagged items before closing. Enhanced DD required."
      [] level = "MODERATE RISK" -> "Acceptable risk profile. Standard DD sufficient with ongoing monitoring of noted items."
      [] level = "LOW RISK" -> "No significant concerns identified. Standard due diligence sufficient."

\* C6: the classification is total with inclusive lower bounds 65, 50, 35
\* and 20 (a score on a bound falls in the tier the bound opens), and each
\* tier carries its one signal label and recommendation.
ClassificationInclusive ==
    pc = "done" =>
      /\ verdict.level = TierOf(overall)
      /\ verdict.signal = SignalOf(verdict.level)
      /\ verdict.rec = RecOf(verdict.level)
      /\ \A bound \in {6500, 5000, 3500, 2000} :
           /\ Classify(bound).level = TierOf(bound)
           /\ Classify(bound - 1).level # Classify(bound).level

\* a run whose overall score is exactly 35.0
ClassificationWitness ==
    /\ pc = "done"
    /\ overall = 3500
    /\ verdict.level = "ELEVATED RISK"

CrisisFlagCount(intel) ==
    Sum([i \in DOMAIN intel.key_articles |->
           Len(SelectSeq(intel.key_articles[i].flags,
                         LAMBDA f : ~StartsWith(f, "GEO:") /\ ~StartsWith(f, "SUPPLY:")))])

\* C7: the sentiment score is 85 above 10 crisis matches, 70 above 5, 55
\* above 2 and 50 otherwise, so counts of exactly 10, 5 and 2 fall to the
\* lower tier.
SentimentTiersStrict ==
    pc = "sec" =>
      LET count == CrisisFlagCount(news_intel)
      IN  /\ news_intel.sentiment_score =
               (IF count > 10 THEN 85 ELSE IF count > 5 THEN 70
                ELSE IF count > 2 THEN 55 ELSE 50)
          /\ news_intel.sentiment_score \in {50, 55, 70, 85}
          /\ news_intel.sentiment_score = data_sources["news_intelligence"].sentiment_score

\* news whose crisis matches number exactly 10
SentimentWitness ==
    /\ pc = "sec"
    /\ CrisisFlagCount(news_intel) = 10
    /\ news_intel.sentiment_score = 70

NoFindings ==
    /\ data_sources["news_articles"] = <<>>
    /\ IsList(data_sources["court_records"])
    /\ data_sources["court_records"].v = <<>>
    /\ IF IsDict(data_sources["fec_donations"])
       THEN /\ "total_amount" \in DOMAIN data_sources["fec_donations"].v
            /\ data_sources["fec_donations"].v["total_amount"] = 0
       ELSE data_sources["fec_donations"].v = <<>>
    /\ data_sources["sanctions"].count = 0

\* C8: when no provider finds anything (no articles, an empty litigation
\* list, a zero donation total, no sanctions match) the red-flag list is
\* empty, the narrative is the fallback sentence alone, confidence is MEDIUM,
\* every category is at its baseline and the overall score is 13.0, LOW RISK.
ZeroFindingsVerdict ==
    (pc = "done" /\ NoFindings) =>
      /\ red_flags = <<>>
      /\ intel_assessment.overall_narrative =
           "No significant adverse indicators identified for Acme in current analysis. Standard due diligence procedures recommended."
      /\ intel_assessment.confidence = "MEDIUM"
      /\ scores["Leadership"].score = 15
      /\ scores["Financial"].score = 15
      /\ scores["Legal"].score = 15
      /\ scores["Regulatory"].score = 10
      /\ scores["Reputational"].score = 15
      /\ scores["Political"].score = 10
      /\ scores["Operational"].score = 10
      /\ scores["Geopolitical"].score = 10
      /\ scores["Supply Chain"].score = 10
      /\ overall = 1300
      /\ verdict.level = "LOW RISK"

\* a finished run in which every provider answered and none found anything
ZeroFindingsWitness ==
    /\ pc = "done"
    /\ NoFindings
    /\ \A p \in Providers : outcome[p] = "ok"

Failed(p) == p \in DOMAIN outcome /\ outcome[p] = "error"

\* C9: whichever providers fail, no exception surfaces from their failure and
\* each failed provider contributes nothing: a failed court search leaves
\* Legal to the news rules, a failed FEC search leaves Political at 10, a
\* failed sanctions lookup counts as 0 matches, a failed news fetch gives
\* sentiment 50 and no flags.
FailuresContributeNothing ==
    /\ pc = "raised" =>
         /\ ~Failed("news")
         /\ DOMAIN outcome = {"news"}
    /\ Scored =>
         /\ DOMAIN outcome = Providers
         /\ Failed("court_records") =>
              /\ ~HasFlag("Legal")
              /\ scores["Legal"].score = (IF HasFlag("Legal/Regulatory") THEN 85 ELSE 15)
         /\ Failed("fec_donations") =>
              /\ ~HasFlag("Political")
              /\ scores["Political"].score = 10
              /\ scores["Political"].factors = <<>>
         /\ Failed("sanctions") =>
              /\ data_sources["sanctions"].count = 0
              /\ ~HasFlag("Sanctions")
              /\ scores["Regulatory"].score # 100
         /\ Failed("news") =>
              /\ news_intel.sentiment_score = 50
              /\ news_intel.key_articles = <<>>
              /\ news_intel.crisis_signals = <<>>
         /\ (\A p \in Providers : Failed(p)) =>
              /\ red_flags = <<>>
              /\ \A c \in DOMAIN scores : scores[c].score = InitialScores[c].score
    /\ pc = "done" => verdict.level \in { "CRITICAL RISK", "HIGH RISK", "ELEVATED RISK",
                                        "MODERATE RISK", "LOW RISK" }

\* a finished run in which all six providers failed
AllProvidersFailedWitness ==
    /\ pc = "done"
    /\ \A p \in Providers : Failed(p)
    /\ overall = 1300

\* C10: in the red-flag list a Sanctions flag precedes every other flag and
\* a Political flag precedes any Geopolitical flag.
SanctionsFlagFirst ==
    Scored =>
      \A i, j \in DOMAIN red_flags :
        /\ (red_flags[i].category = "Sanctions" /\ i # j) => i < j
        /\ (red_flags[i].category = "Political"
            /\ red_flags[j].category = "Geopolitical") => i < j

FlagCategories ==
    { "Corporate Crisis", "Financial", "Cybersecurity", "Leadership",
      "Legal/Regulatory", "Geopolitical", "Legal", "Political", "Sanctions" }

BankruptcyKeywords == {"bankruptcy", "chapter 11", "chapter 7"}

\* C11: the red-flag list holds at most one flag per category label, hence at
\* most 9 flags; when any of bankruptcy, chapter 11, chapter 7 is among the
\* flags found (alone or together, in one article or several) Financial is 95
\* and exactly one flag of category "Financial" is emitted, of severity
\* CRITICAL.
OneFlagPerCategory ==
    pc = "classify" =>
      /\ \A i \in DOMAIN red_flags : red_flags[i].category \in FlagCategories
      /\ \A c \in FlagCategories : Len(FlagsOf(c)) <= 1
      /\ Len(red_flags) <= 9
      /\ (RiskKeywords(news_intel.key_articles) \cap BankruptcyKeywords # {}) =>
           /\ scores["Financial"].score = 95
           /\ Len(FlagsOf("Financial")) = 1
           /\ FlagsOf("Financial")[1].severity = "CRITICAL"
      /\ \A found \in (SUBSET BankruptcyKeywords) \ {{}} :
           LET st == RuleBankruptcy([scores |-> InitialScores, red_flags |-> <<>>], found)
           IN  /\ st.scores["Financial"].score = 95
               /\ Len(st.red_flags) = 1
               /\ st.red_flags[1].category = "Financial"
               /\ st.red_flags[1].severity = "CRITICAL"

\* a run over two articles that each match both bankruptcy and chapter 11,
\* with seven conditions firing at once
OneFlagWitness ==
    /\ pc = "classify"
    /\ Len(news_intel.key_articles) = 2
    /\ \A i \in 1..2 : {"bankruptcy", "chapter 11"} \subseteq Range(news_intel.key_articles[i].flags)
    /\ Len(FlagsOf("Financial")) = 1
    /\ Len(red_flags) = 7

\* the Legal score the news rules leave behind
LegalFromNews == IF HasFlag("Legal/Regulatory") THEN 85 ELSE 15

\* C12: a litigation list of n records with n > 5 raises Legal to at least 75
\* and emits exactly one flag of category "Legal", of severity HIGH, whose
\* finding contains n; 2 < n <= 5 raises Legal to at least 50 with no
\* litigation flag; n <= 2 leaves Legal unchanged with no litigation flag;
\* with no other signal and n = 6, Legal is exactly 75.
LitigationVolumeRule ==
    (Scored /\ IsList(data_sources["court_records"])) =>
      LET n == Len(data_sources["court_records"].v)
      IN  /\ n > 5 =>
               /\ scores["Legal"].score >= 75
               /\ scores["Legal"].score = Max(LegalFromNews, 75)
               /\ Len(FlagsOf("Legal")) = 1
               /\ FlagsOf("Legal")[1].severity = "HIGH"
               /\ Contains(FlagsOf("Legal")[1].finding, ToString(n))
          /\ (n > 2 /\ n <= 5) =>
               /\ scores["Legal"].score >= 50
               /\ scores["Legal"].score = Max(LegalFromNews, 50)
               /\ ~HasFlag("Legal")
          /\ n <= 2 =>
               /\ scores["Legal"].score = LegalFromNews
               /\ scores["Legal"].factors = <<>>
               /\ ~HasFlag("Legal")
          /\ (n = 6 /\ data_sources["news_articles"] = <<>>) => scores["Legal"].score = 75

\* a run with six case records and no other signal
LitigationWitness ==
    /\ pc = "done"
    /\ data_sources["news_articles"] = <<>>
    /\ IsList(data_sources["court_records"])
    /\ Len(data_sources["court_records"].v) = 6
    /\ scores["Legal"].score = 75
    /\ red_flags # <<>>
    /\ red_flags[1].category = "Legal"
    /\ red_flags[1].finding = "6 litigation matters identified"

SentenceOpenings ==
    << "CRITICAL: Acme has potential matches on global sanctions lists",
       "Current media analysis indicates",
       "CRITICAL: Bankruptcy indicators detected",
       "ELEVATED RISK: Cybersecurity incident detected",
       "Company is undergoing workforce reduction",
       "CRITICAL: Regulatory investigation or fraud allegations detected",
       "Leadership instability detected",
       "Geopolitical exposure identified",
       "Supply chain vulnerabilities noted",
       "Significant litigation history",
       "Substantial political activity" >>

\* the rank of a sentence in the priority order, 0 when it belongs to no class
SentenceClass(sentence) ==
    IF \E k \in DOMAIN SentenceOpenings : StartsWith(sentence, SentenceOpenings[k])
    THEN CHOOSE k \in DOMAIN SentenceOpenings : StartsWith(sentence, SentenceOpenings[k])
    ELSE 0

\* C14: the narrative is the sentences of the active conditions joined in the
\* priority order sanctions, crisis-tier sentiment, bankruptcy, cyber, layoff,
\* investigation/fraud, leadership, geopolitical, supply chain, litigation
\* volume, political spend: a sentence of an earlier class never follows one
\* of a later class and no class contributes two sentences.
NarrativePriorityOrder ==
    pc = "score" =>
      LET parts == narrative_parts(AssessmentConditions(data_sources))
      IN  /\ intel_assessment.overall_narrative =
                (IF parts = <<>> THEN FallbackSentence ELSE Join(parts, " "))
          /\ \A i \in DOMAIN parts : SentenceClass(parts[i]) # 0
          /\ \A i, j \in DOMAIN parts :
                i < j => SentenceClass(parts[i]) < SentenceClass(parts[j])

\* an assessment of eight sentences, from the sanctions one to the political one
NarrativeWitness ==
    /\ pc = "score"
    /\ LET parts == narrative_parts(AssessmentConditions(data_sources))
       IN  /\ Len(parts) = 8
           /\ SentenceClass(parts[1]) = 1
           /\ SentenceClass(parts[2]) = 2
           /\ SentenceClass(parts[8]) = 11
    /\ StartsWith(intel_assessment.overall_narrative, "CRITICAL: Acme has potential matches")

\* the assessment has been generated
Assessed == pc \in {"score", "classify", "done"}

\* C15: the assessment confidence is HIGH exactly when the sanctions count is
\* above 0 and MEDIUM in every other case, the fallback narrative and the
\* failure of every provider included; it is never LOW.
ConfidenceFollowsSanctions ==
    Assessed =>
      /\ intel_assessment.confidence = "HIGH" <=> data_sources["sanctions"].count > 0
      /\ intel_assessment.confidence # "HIGH" => intel_assessment.confidence = "MEDIUM"
      /\ intel_assessment.overall_narrative = FallbackSentence =>
           intel_assessment.confidence = "MEDIUM"
      /\ (\A p \in Providers : Failed(p)) => intel_assessment.confidence = "MEDIUM"

\* an assessment whose only sentence is the sanctions one
ConfidenceWitness ==
    /\ pc = "done"
    /\ data_sources["sanctions"].count > 0
    /\ data_sources["news_articles"] = <<>>
    /\ Len(narrative_parts(AssessmentConditions(data_sources))) = 1
    /\ intel_assessment.confidence = "HIGH"

-----------------------------------------------------------------------------
(* Two runs on one input: the search button pressed twice on the same target *)
(* (app.py 369-446), every provider answering the second time as it did the  *)
(* first. A run is taken as one step here.                                    *)

\* findings["data_sources"] once the providers have answered
Gathered(fetched, court, fec, count) ==
    ( "news_articles" :> fetched @@ "sec_edgar" :> PyDict([company_info |-> Null])
      @@ "court_records" :> court @@ "fec_donations" :> fec
      @@ "sanctions" :> SanctionsResult(count)
      @@ "news_search" :> PyDict([total_articles |-> 0]) )

InitRunTwice ==
    /\ pc = "first"
    /\ search_type = "Company"
    /\ outcome = [p \in Providers |-> "ok"]
    /\ \E fetched \in {a \in ArticleLists : ~AnalyzeRaises(a)} \cup {<<ArticleConvicted>>},
          c \in DOMAIN OtherCourts, f \in DOMAIN OtherFecs, n \in MatchCounts :
         data_sources = Gathered(fetched, OtherCourts[c], OtherFecs[f], n)
    /\ news_intel = EmptyDict
    /\ intel_assessment = EmptyDict
    /\ scores = EmptyDict
    /\ overall = 0
    /\ red_flags = <<>>
    /\ verdict = EmptyDict
    /\ first_run = [completed |-> FALSE]
    /\ collectors = <<>>

\* extraction, assessment, scoring and classification (app.py 385-446)
RunPipeline ==
    /\ news_intel' = analyze_news_intelligence(data_sources["news_articles"])
    /\ data_sources' = ("news_intelligence" :> news_intel' @@ data_sources)
    /\ intel_assessment' = generate_intelligence_assessment(data_sources')
    /\ LET r == calculate_risk(data_sources')
       IN  /\ scores' = r.scores
           /\ overall' = r.weighted_score
           /\ red_flags' = r.red_flags
           /\ verdict' = Classify(r.weighted_score)

FirstRun ==
    /\ pc = "first"
    /\ RunPipeline
    /\ pc' = "second"
    /\ UNCHANGED <<search_type, outcome, first_run, collectors>>

SecondRun ==
    /\ pc = "second"
    /\ first_run' = [ completed |-> TRUE, news_intel |-> news_intel,
                      intel_assessment |-> intel_assessment, scores |-> scores,
                      overall |-> overall, red_flags |-> red_flags, verdict |-> verdict ]
    /\ RunPipeline
    /\ pc' = "done"
    /\ UNCHANGED <<search_type, outcome, collectors>>

NextRunTwice ==
    \/ FirstRun
    \/ SecondRun

RunTwice == InitRunTwice /\ [][NextRunTwice]_vars

FlagsRecorded(title) ==
    UNION { Range(news_intel.key_articles[i].flags) :
              i \in {j \in DOMAIN news_intel.key_articles :
                       news_intel.key_articles[j].title = title} }

\* C17: keyword matching is case-insensitive for every entry of the three
\* taxonomies: a scanned article whose title and description contain a
\* keyword in any letter case carries the flag of that keyword, the
\* mixed-case entries "SEC investigation", "CEO resign" and "CFO resign"
\* included.
KeywordsCaseInsensitive ==
    pc = "sec" =>
      \A i \in DOMAIN Prefix(data_sources["news_articles"], NewsWindow) :
        LET article == data_sources["news_articles"][i]
            content == ArticleContent(article)
        IN  /\ \A k \in Range(CRISIS_KEYWORDS) :
                 Contains(content, Lower(k)) => k \in FlagsRecorded(article.title)
            /\ \A k \in Range(GEOPOLITICAL_RISK_KEYWORDS) :
                 Contains(content, Lower(k)) => ("GEO: " \o k) \in FlagsRecorded(article.title)
            /\ \A k \in Range(SUPPLY_CHAIN_KEYWORDS) :
                 Contains(content, Lower(k)) => ("SUPPLY: " \o k) \in FlagsRecorded(article.title)

\* C18: extraction never raises on a malformed record: whichever of title,
\* description, source and publishedAt is null, analyze_news_intelligence
\* completes, reads the missing text as the empty string and still processes
\* every other record of the window.
ExtractionNeverRaises ==
    /\ pc # "raised"
    /\ pc = "sec" =>
         LET window == Prefix(data_sources["news_articles"], NewsWindow)
         IN  Len(news_intel.key_articles) =
               Cardinality({i \in DOMAIN window : ArticleFlags(window[i]) # <<>>})

-----------------------------------------------------------------------------
(* Long feeds: analyze_news_intelligence applied to a feed of 30 to 32       *)
(* articles and to the same feed cut after its 30th (app.py 53-115).         *)

\* an article that matches no keyword
ArticleQuiet == Article(Some("Q3"), Null, Reuters, Stamp)

\* what a long feed opens with; the rest of its first 29 or 30 is quiet
FeedLeads ==
    { <<>>, <<ArticleLayoffs, ArticleLayoffs>>, <<ArticleBankrupt, ArticleLayoffs>>,
      <<ArticleChina, ArticleChina>> }

FeedTails == UNION {[1..n -> Articles] : n \in 1..MaxOverflow}

LongFeeds ==
    { lead \o [i \in 1..(n - Len(lead)) |-> ArticleQuiet] \o tail :
        <<lead, n, tail>> \in FeedLeads \X {NewsWindow - 1, NewsWindow} \X FeedTails }

InitLongFeed ==
    /\ pc = "cut"
    /\ search_type = "Company"
    /\ outcome = ("news" :> "ok")
    /\ \E feed \in LongFeeds : data_sources = ("news_articles" :> feed)
    /\ news_intel = EmptyDict
    /\ intel_assessment = EmptyDict
    /\ scores = EmptyDict
    /\ overall = 0
    /\ red_flags = <<>>
    /\ verdict = EmptyDict
    /\ first_run = [completed |-> FALSE]
    /\ collectors = <<>>

\* the analysis of the feed cut after its 30th article
AnalyzeCutFeed ==
    /\ pc = "cut"
    /\ LET cut == SubSeq(data_sources["news_articles"], 1, NewsWindow)
       IN  IF AnalyzeRaises(cut)
           THEN /\ pc' = "raised"
                /\ UNCHANGED first_run
           ELSE /\ pc' = "whole"
                /\ first_run' = [ completed |-> TRUE,
                                  news_intel |-> analyze_news_intelligence(cut) ]
    /\ UNCHANGED <<search_type, outcome, data_sources, news_intel, intel_assessment,
                   scores, overall, red_flags, verdict, collectors>>

\* the analysis of the whole feed
AnalyzeWholeFeed ==
    /\ pc = "whole"
    /\ IF AnalyzeRaises(data_sources["news_articles"])
       THEN /\ pc' = "raised"
            /\ UNCHANGED news_intel
       ELSE /\ pc' = "done"
            /\ news_intel' = analyze_news_intelligence(data_sources["news_articles"])
    /\ UNCHANGED <<search_type, outcome, data_sources, intel_assessment,
                   scores, overall, red_flags, verdict, first_run, collectors>>

NextLongFeed ==
    \/ AnalyzeCutFeed
    \/ AnalyzeWholeFeed

LongFeed == InitLongFeed /\ [][NextLongFeed]_vars

\* C19: only the first 30 articles are scanned: a feed and the same feed cut
\* after its 30th article (hence any two feeds that agree on their first 30)
\* yield the same key articles, the same crisis, geopolitical and
\* supply-chain signals and the same sentiment score; an article at position
\* 31 or beyond adds no flag, changes no count and cannot make the analysis
\* fail.
OnlyFirstThirtyScanned ==
    first_run.completed =>
      /\ pc # "raised"
      /\ pc = "done" =>
           /\ news_intel.key_articles = first_run.news_intel.key_articles
           /\ news_intel.crisis_signals = first_run.news_intel.crisis_signals
           /\ news_intel.geopolitical_risks = first_run.news_intel.geopolitical_risks
           /\ news_intel.supply_chain_risks = first_run.news_intel.supply_chain_risks
           /\ news_intel.sentiment_score = first_run.news_intel.sentiment_score
           /\ news_intel.total_articles = Len(data_sources["news_articles"])

\* a feed of 32 articles whose first 30 hold exactly 10 crisis matches and
\* whose 31st holds 6 more
LongFeedWitness ==
    /\ pc = "done"
    /\ Len(data_sources["news_articles"]) = 32
    /\ data_sources["news_articles"][31] = ArticleBankrupt
    /\ news_intel.sentiment_score = 70
    /\ Len(news_intel.key_articles) = 2
    /\ news_intel.total_articles = 32

\* C20: every score movement is explained by a factor: each category whose
\* final score differs from its baseline has a non-empty factors list,
\* Financial and Operational raised by the sentiment tiers, Regulatory raised
\* by a cyber incident and Legal raised by investigation or fraud included.
EveryMovementHasFactor ==
    Scored =>
      \A c \in DOMAIN scores :
        scores[c].score # InitialScores[c].score => scores[c].factors # <<>>

\* C21: when the scanned news matches the geopolitical keyword "china" and
\* geopolitical signals are active, extraction followed by calculate_risk
\* sets Geopolitical to 75, records the China factor and emits exactly one
\* flag of category "Geopolitical", of severity MEDIUM.
ChinaBumpEndToEnd ==
    (pc = "classify" /\ "GEO: china" \in FlagSet(news_intel)
                    /\ news_intel.geopolitical_risks # <<>>) =>
      /\ scores["Geopolitical"].score = 75
      /\ \E i \in DOMAIN scores["Geopolitical"].factors :
           scores["Geopolitical"].factors[i] = "China-related risk exposure"
      /\ Len(FlagsOf("Geopolitical")) = 1
      /\ FlagsOf("Geopolitical")[1].severity = "MEDIUM"

\* C22: Geopolitical and Supply Chain are presence-triggered: with at least
\* one geopolitical keyword match among the scanned articles Geopolitical is
\* above its baseline 10, and with at least one supply-chain match Supply
\* Chain is 60 and the narrative carries the supply-chain sentence.
PresenceTriggered ==
    pc = "classify" =>
      /\ (\E f \in FlagSet(news_intel) : StartsWith(f, "GEO: ")) =>
           scores["Geopolitical"].score > 10
      /\ (\E f \in FlagSet(news_intel) : StartsWith(f, "SUPPLY: ")) =>
           /\ scores["Supply Chain"].score = 60
           /\ \E i \in DOMAIN narrative_parts(AssessmentConditions(data_sources)) :
                StartsWith(narrative_parts(AssessmentConditions(data_sources))[i],
                           "Supply chain vulnerabilities noted")

-----------------------------------------------------------------------------
(* calculate_risk rule by rule (app.py 200-358): the findings are drawn in   *)
(* the initial state, scores and red_flags hold the working dict and list,   *)
(* and each step applies one rule block.                                     *)

\* the keywords whose flags the news rules of calculate_risk read, one per rule
RuleSample == <<"bankruptcy", "hack", "executive exodus", "fraud", "layoffs">>

\* numbers of further crisis matches ("fine") in other articles
ExtraMatches == {0, 3, 6, 11}

KeyArticle(flags) ==
    [ title |-> Some("Update"), source |-> "Reuters", date |-> "2025-01-15",
      url |-> "https://news.example/a", flags |-> flags ]

\* an analysis as analyze_news_intelligence returns it: one article carrying
\* the chosen keywords, extra articles carrying one match each
IntelWith(chosen, extra, geo_risks, supply_risks) ==
    LET flags == SelectSeq(RuleSample, LAMBDA k : k \in chosen)
        crisis_count == Len(flags) + extra
    IN  [ total_articles       |-> extra + (IF flags = <<>> THEN 0 ELSE 1),
          crisis_signals       |-> SentimentTier(crisis_count)[1],
          geopolitical_risks   |-> geo_risks,
          supply_chain_risks   |-> supply_risks,
          sentiment_score      |-> SentimentTier(crisis_count)[2],
          key_articles         |-> Opt(flags # <<>>, KeyArticle(flags))
                                   \o [i \in 1..extra |-> KeyArticle(<<"fine">>)],
          intelligence_summary |-> "" ]

Findings(intel, court, fec, count) ==
    ( "news_intelligence" :> intel @@ "court_records" :> court
      @@ "fec_donations" :> fec @@ "sanctions" :> SanctionsResult(count) )

InitRuleByRule ==
    /\ pc = "sentiment"
    /\ search_type = "Company"
    /\ outcome = [p \in Providers |-> "ok"]
    /\ \E chosen \in SUBSET Range(RuleSample), extra \in ExtraMatches,
          geo \in {<<>>, GeoTier(4)}, supply \in {<<>>, SupplyTier(3)},
          n \in {0, 3, MaxCases}, total \in {0, 100001, 500001}, count \in MatchCounts :
         data_sources = Findings(IntelWith(chosen, extra, geo, supply),
                                 PyList(CaseList(n)), PyDict(FecSummary(total)), count)
    /\ news_intel = EmptyDict
    /\ intel_assessment = EmptyDict
    /\ scores = FreshResult.scores
    /\ overall = 0
    /\ red_flags = FreshResult.red_flags
    /\ verdict = EmptyDict
    /\ first_run = [completed |-> FALSE]
    /\ collectors = <<>>

Working == [scores |-> scores, red_flags |-> red_flags]
RuleIntel == Get(data_sources, "news_intelligence", EmptyDict)
RuleFound == RiskKeywords(Get(RuleIntel, "key_articles", <<>>))

Advance(st, next) ==
    /\ scores' = st.scores
    /\ red_flags' = st.red_flags
    /\ pc' = next
    /\ UNCHANGED <<search_type, outcome, data_sources, news_intel, intel_assessment,
                   overall, verdict, first_run, collectors>>

\* app.py 218-233
ApplySentiment ==
    /\ pc = "sentiment"
    /\ Advance(RuleSentiment(Working, Get(RuleIntel, "sentiment_score", 50)), "bankruptcy")

\* app.py 240-249
ApplyBankruptcy ==
    /\ pc = "bankruptcy"
    /\ Advance(RuleBankruptcy(Working, RuleFound), "cyber")

\* app.py 251-261
ApplyCyber ==
    /\ pc = "cyber"
    /\ Advance(RuleCyber(Working, RuleFound), "leadership")

\* app.py 263-272
ApplyLeadership ==
    /\ pc = "leadership"
    /\ Advance(RuleLeadership(Working, RuleFound), "investigation")

\* app.py 274-284
ApplyInvestigation ==
    /\ pc = "investigation"
    /\ Advance(RuleInvestigation(Working, RuleFound), "layoff")

\* app.py 286-288
ApplyLayoff ==
    /\ pc = "layoff"
    /\ Advance(RuleLayoff(Working, RuleFound), "geopolitical")

\* app.py 290-303
ApplyGeopolitical ==
    /\ pc = "geopolitical"
    /\ Advance(RuleGeopolitical(Working, Get(RuleIntel, "geopolitical_risks", <<>>)), "supply_chain")

\* app.py 305-308
ApplySupplyChain ==
    /\ pc = "supply_chain"
    /\ Advance(RuleSupplyChain(Working, Get(RuleIntel, "supply_chain_risks", <<>>)), "litigation")

\* app.py 310-325
ApplyLitigation ==
    /\ pc = "litigation"
    /\ Advance(RuleLitigation(Working, Get(data_sources, "court_records", PyList(<<>>))), "political")

\* app.py 327-342
ApplyPolitical ==
    /\ pc = "political"
    /\ Advance(RulePolitical(Working, Get(data_sources, "fec_donations", PyDict(EmptyDict))), "sanctions")

\* app.py 344-354
ApplySanctions ==
    /\ pc = "sanctions"
    /\ Advance(RuleSanctions(Working, Get(data_sources, "sanctions", EmptyDict)), "returned")

NextRuleByRule ==
    \/ ApplySentiment
    \/ ApplyBankruptcy
    \/ ApplyCyber
    \/ ApplyLeadership
    \/ ApplyInvestigation
    \/ ApplyLayoff
    \/ ApplyGeopolitical
    \/ ApplySupplyChain
    \/ ApplyLitigation
    \/ ApplyPolitical
    \/ ApplySanctions

RuleByRule == InitRuleByRule /\ [][NextRuleByRule]_vars

\* C23: within one run of calculate_risk no rule application lowers the
\* score of any category: after every step each category score is at least
\* its value before the step and at least its baseline, whatever conditions
\* are active; the last step leaves what calculate_risk returns.
NoRuleLowersAScore ==
    [][ /\ \A c \in DOMAIN scores :
             /\ scores'[c].score >= scores[c].score
             /\ scores'[c].score >= InitialScores[c].score
        /\ pc' = "returned" =>
             /\ scores' = ApplyRules(data_sources).scores
             /\ red_flags' = ApplyRules(data_sources).red_flags ]_vars

\* a finished run in which the litigation rule met a Legal score above its
\* tier value and the layoff rule an Operational score above 55
NoLoweringWitness ==
    /\ pc = "returned"
    /\ Len(data_sources["court_records"].v) = 3
    /\ scores["Legal"].score = 85
    /\ Len(scores["Legal"].factors) = 1
    /\ scores["Operational"].score = 75
    /\ Len(scores["Operational"].factors) = 2
    /\ scores["Regulatory"].score = 100

-----------------------------------------------------------------------------
(* The analysis run under fairness: the script runs to its end unless an     *)
(* exception stops it (app.py 377-446 has no wait and no loop).              *)

FairSpec == Spec /\ WF_vars(Next)

\* the keys the provider steps store in findings["data_sources"]
ProviderKeys ==
    { "news_intelligence", "news_articles", "sec_edgar", "court_records",
      "fec_donations", "sanctions", "news_search" }

\* the order of the steps of a run
RunOrder ==
    << "news", "sec", "court", "fec", "sanctions", "gdelt", "assess", "score",
       "classify", "done" >>

\* C24: assessment and scoring start only after every provider step has
\* finished and stored a result or an error marker; assessment, scoring and
\* classification then run once each, in that order; and every started run
\* reaches the classified verdict.
RunOrderedAndCompleted ==
    /\ [](pc \in {"assess", "score", "classify", "done"} =>
            /\ DOMAIN outcome = Providers
            /\ ProviderKeys \subseteq DOMAIN data_sources)
    /\ [][pc' # pc => \E i \in 1..(Len(RunOrder) - 1) :
                         pc = RunOrder[i] /\ pc' = RunOrder[i + 1]]_vars
    /\ <>(pc = "done")

\* the result agrees with the current one outside one category and one flag
SameOutside(result, category, flag_category) ==
    /\ \A c \in DOMAIN scores : c # category => result.scores[c] = scores[c]
    /\ SelectSeq(result.red_flags, LAMBDA f : f.category # flag_category)
         = SelectSeq(red_flags, LAMBDA f : f.category # flag_category)

\* C25: frame of the raw-count rules: another sanctions count changes only
\* Regulatory and the Sanctions flag, another donation total only Political
\* and the Political flag, another litigation list length only Legal and the
\* Legal flag; every other score, factor list and flag is identical, and
\* the findings are not modified by the rules.
RawCountFrame ==
    /\ [](pc = "returned" =>
            /\ \A count \in 0..2 :
                 SameOutside(
                   ApplyRules([data_sources EXCEPT !["sanctions"] = SanctionsResult(count)]),
                   "Regulatory", "Sanctions")
            /\ \A total \in FecAmounts :
                 SameOutside(
                   ApplyRules([data_sources EXCEPT !["fec_donations"] = PyDict(FecSummary(total))]),
                   "Political", "Political")
            /\ \A n \in 0..MaxCases :
                 SameOutside(
                   ApplyRules([data_sources EXCEPT !["court_records"] = PyList(CaseList(n))]),
                   "Legal", "Legal"))
    /\ [][data_sources' = data_sources]_vars

\* a finished run in which the three raw-count rules and four news rules fired
FrameWitness ==
    /\ pc = "returned"
    /\ HasFlag("Sanctions")
    /\ HasFlag("Political")
    /\ HasFlag("Legal")
    /\ HasFlag("Legal/Regulatory")
    /\ Len(red_flags) >= 7

\* C26: whenever the assessment of a run is the fallback sentence, the
\* scoring of the same findings has no red flag: every condition that emits a
\* red flag (chapter 7, cyber attack, indictment and convicted included) also
\* contributes a narrative sentence.
FallbackMeansNoFlags ==
    (pc # "first" /\ intel_assessment.overall_narrative = FallbackSentence)
        => red_flags = <<>>

\* a finished run with a sanctions match
SanctionsMatched == pc = "done" /\ Get(data_sources["sanctions"], "count", 0) > 0

\* no article, no court case and no donation
OtherSourcesEmpty ==
    /\ news_intel.total_articles = 0
    /\ IsList(data_sources["court_records"])
    /\ Len(data_sources["court_records"].v) = 0
    /\ IsDict(data_sources["fec_donations"])
    /\ Get(data_sources["fec_donations"].v, "total_amount", 0) = 0

\* C27: with a sanctions count above 0 the overall score is at least 22 and
\* the level is never LOW RISK; with a sanctions match and every other source
\* empty the overall score is exactly 22, the level MODERATE RISK and the
\* signal "PROCEED WITH MONITORING".
SanctionsFloor ==
    SanctionsMatched =>
        /\ overall >= 22 * 100
        /\ verdict.level # "LOW RISK"
        /\ OtherSourcesEmpty =>
              /\ overall = 22 * 100
              /\ verdict.level = "MODERATE RISK"
              /\ verdict.signal = "PROCEED WITH MONITORING"

\* a finished run whose only finding is the sanctions match
SanctionsFloorWitness == SanctionsMatched /\ OtherSourcesEmpty

\* a Person search whose donor lookup answered
PersonDonations ==
    /\ search_type = "Person"
    /\ outcome["fec_donations"] = "ok"

\* C28: for a Person search the FEC result is a list of contributions, not a
\* summary, and the political rules never fire whatever the amounts are:
\* Political stays at 10 with no factor, there is no Political red flag, and
\* the narrative has no political-spend sentence.
PersonSearchNoPolitical ==
    /\ (pc \in {"sanctions", "classify"} /\ PersonDonations)
          => IsList(data_sources["fec_donations"])
    /\ (pc = "classify" /\ PersonDonations) =>
          /\ scores["Political"].score = 10
          /\ scores["Political"].factors = <<>>
          /\ ~HasFlag("Political")
    /\ (pc = "score" /\ PersonDonations) =>
          LET parts == narrative_parts(AssessmentConditions(data_sources))
          IN  /\ \A i \in DOMAIN parts :
                    ~StartsWith(parts[i], "Substantial political activity")
              /\ \A i \in DOMAIN intel_assessment.risk_factors :
                    intel_assessment.risk_factors[i] # "Political/regulatory exposure"

\* a scored Person search whose donor list holds a 600,000 contribution
PersonSearchWitness ==
    /\ pc = "classify"
    /\ PersonDonations
    /\ Len(data_sources["fec_donations"].v) > 0
    /\ data_sources["fec_donations"].v[1].contribution_amount > 500000

-----------------------------------------------------------------------------
(* The command-line researcher (src/osint_research.py). Its findings reuse    *)
(* the variables of the application: search_type is findings['target_type'], *)
(* data_sources is findings['data_sources'], red_flags is                    *)
(* findings['red_flags'] and verdict is the risk assessment or the summary.  *)

MaxFlags == 4

Min(a, b) == IF a <= b THEN a ELSE b

\* a red flag as _identify_red_flags builds it
CliFlag(severity, category, description, details) ==
    [ severity |-> severity, category |-> category, description |-> description,
      details |-> details ]

\* the points one flag adds to the score (osint_research.py 308-314)
SeverityPoints(severity) ==
    IF severity = "HIGH" THEN 30
    ELSE IF severity = "MEDIUM" THEN 15
    ELSE IF severity = "LOW" THEN 5
    ELSE 0

\* the classification of a score (osint_research.py 319-326)
RiskAssessment(score) ==
    IF score >= 70
    THEN [ score |-> score, level |-> "HIGH RISK",
           recommendation |-> "Enhanced due diligence required" ]
    ELSE IF score >= 40
    THEN [ score |-> score, level |-> "MEDIUM RISK",
           recommendation |-> "Additional investigation recommended" ]
    ELSE IF score >= 20
    THEN [ score |-> score, level |-> "LOW RISK",
           recommendation |-> "Standard due diligence sufficient" ]
    ELSE [ score |-> score, level |-> "MINIMAL RISK",
           recommendation |-> "No significant concerns identified" ]

\* _calculate_risk_score without the cap at 100
_calculate_risk_score_uncapped(flags) ==
    RiskAssessment(Sum([i \in 1..Len(flags) |-> SeverityPoints(flags[i].severity)]))

\* OSINTResearcher._calculate_risk_score (osint_research.py 304-326)
_calculate_risk_score(flags) ==
    RiskAssessment(
      Min(Sum([i \in 1..Len(flags) |-> SeverityPoints(flags[i].severity)]), 100))

Severities == {"HIGH", "MEDIUM", "LOW"}

\* red-flag lists of up to MaxFlags flags
FlagLists ==
    UNION { [1..n -> {CliFlag(sev, "Legal", "finding", <<>>) : sev \in Severities}]
            : n \in 0..MaxFlags }

InitRiskScore ==
    /\ pc = "flagged"
    /\ search_type = "company"
    /\ outcome = EmptyDict
    /\ data_sources = EmptyDict
    /\ news_intel = EmptyDict
    /\ intel_assessment = EmptyDict
    /\ scores = EmptyDict
    /\ overall = 0
    /\ red_flags \in FlagLists
    /\ verdict = EmptyDict
    /\ first_run = [completed |-> FALSE]
    /\ collectors = <<>>

CalculateRiskScore ==
    /\ pc = "flagged"
    /\ verdict' = _calculate_risk_score(red_flags)
    /\ pc' = "assessed"
    /\ UNCHANGED <<search_type, outcome, data_sources, news_intel, intel_assessment,
                   scores, overall, red_flags, first_run, collectors>>

NextRiskScore == CalculateRiskScore

RiskScore == InitRiskScore /\ [][NextRiskScore]_vars

\* the number of flags of one severity
CountOf(flags, severity) ==
    Cardinality({i \in DOMAIN flags : flags[i].severity = severity})

\* C29: the command-line risk score of a red-flag list is
\* min(30 x #HIGH + 15 x #MEDIUM + 5 x #LOW, 100); it lies in 0..100, does not
\* decrease when a flag is added, and is classified HIGH RISK from 70,
\* MEDIUM RISK from 40 to 69, LOW RISK from 20 to 39 and MINIMAL RISK below 20.
CliScoreFormula ==
    pc = "assessed" =>
      /\ verdict.score = Min(30 * CountOf(red_flags, "HIGH")
                               + 15 * CountOf(red_flags, "MEDIUM")
                               + 5 * CountOf(red_flags, "LOW"), 100)
      /\ verdict.score \in 0..100
      /\ \A sev \in Severities :
            _calculate_risk_score(
              Append(red_flags, CliFlag(sev, "Legal", "finding", <<>>))).score
              >= verdict.score
      /\ verdict.level =
            (IF verdict.score >= 70 THEN "HIGH RISK"
             ELSE IF verdict.score >= 40 THEN "MEDIUM RISK"
             ELSE IF verdict.score >= 20 THEN "LOW RISK"
             ELSE "MINIMAL RISK")

\* four HIGH flags: 120 points before the cap, assessed as 100
CliScoreWitness ==
    /\ pc = "assessed"
    /\ CountOf(red_flags, "HIGH") >= 4
    /\ verdict.score = 100

-----------------------------------------------------------------------------
(* research_company / research_person (osint_research.py 91-228): one step  *)
(* per collector of the loop, then red-flag identification, then the summary *)

\* the collectors in the order _initialize_collectors inserts them
CollectorNames ==
    << "sec_edgar", "opencorporates", "fec_donations", "court_records",
       "ucc_filings", "news_search" >>

\* self.collectors for every choice of config['modules']
CollectorChoices ==
    { SelectSeq(CollectorNames, LAMBDA name : name \in enabled)
      : enabled \in SUBSET Range(CollectorNames) }

\* numbers of civil cases around the threshold of 3
CivilCounts == {0, 3, 4}

\* CourtRecordsCollector results: criminal cases followed by civil cases
CliCases(criminal, civil) ==
    [i \in 1..criminal |-> [case_name |-> "Case " \o ToString(i), case_type |-> "criminal"]]
    \o [i \in 1..civil |-> [case_name |-> "Suit " \o ToString(i), case_type |-> "civil"]]

\* what each collector call can return, by target type
CollectorResults(name, target_type) ==
    IF name = "sec_edgar"
    THEN {PyDict([cik |-> Null, enforcement_actions |-> <<>>])}
    ELSE IF name = "opencorporates"
    THEN IF target_type = "company"
         THEN {PyDict([companies |-> <<>>])}
         ELSE {PyList(<<>>)}
    ELSE IF name = "fec_donations"
    THEN IF target_type = "company"
         THEN {PyDict(FecSummary(total)) : total \in {0, 100001}}
         ELSE {PyList(donations) : donations \in FecDonorLists}
    ELSE IF name = "court_records"
    THEN {PyList(CliCases(criminal, civil)) : criminal \in 0..1, civil \in CivilCounts}
    ELSE IF name = "ucc_filings"
    THEN IF target_type = "company"
         THEN { PyList(<<[state |-> "DE", status |-> "manual_search_required"]>>),
                PyList(<<[type |-> "guidance"]>>) }
         ELSE {PyDict(EmptyDict)}
    ELSE {PyDict([total_articles |-> 0])}

\* the position after the collector called name: the next collector of the
\* loop, or red-flag identification after the last one
AfterCollector(name) ==
    LET i == CHOOSE k \in DOMAIN collectors : collectors[k] = name
    IN  IF i = Len(collectors) THEN "red_flags" ELSE collectors[i + 1]

\* EntityResolver.find_connections
find_connections(ds) ==
    LET fec_data == Get(ds, "fec_donations", PyDict(EmptyDict))
    IN  IF IsDict(fec_data) /\ Get(fec_data.v, "total_amount", 0) > 50000
        THEN <<[type |-> "political_donor", confidence |-> "HIGH"]>>
        ELSE <<>>

\* OSINTResearcher._identify_red_flags (osint_research.py 230-282)
_identify_red_flags(ds) ==
    LET court_data == Get(ds, "court_records", PyDict(EmptyDict))
        ucc_data == Get(ds, "ucc_filings", PyDict(EmptyDict))
        sec_data == Get(ds, "sec_edgar", PyDict(EmptyDict))
        criminal_cases ==
            SelectSeq(court_data.v, LAMBDA c : Get(c, "case_type", "") = "criminal")
        civil_cases ==
            SelectSeq(court_data.v, LAMBDA c : Get(c, "case_type", "") = "civil")
        active_liens ==
            SelectSeq(ucc_data.v, LAMBDA u : Get(u, "status", "") = "active")
        enforcement == Get(sec_data.v, "enforcement_actions", <<>>)
    IN  (IF IsList(court_data) /\ Len(court_data.v) > 0
         THEN Opt(criminal_cases # <<>>,
                  CliFlag("HIGH", "Legal",
                          "Found " \o ToString(Len(criminal_cases)) \o " criminal case(s)",
                          criminal_cases))
              \o Opt(Len(civil_cases) > 3,
                     CliFlag("MEDIUM", "Legal",
                             "Multiple civil lawsuits (" \o ToString(Len(civil_cases))
                               \o " cases)",
                             civil_cases))
         ELSE <<>>)
        \o (IF IsList(ucc_data) /\ Len(ucc_data.v) > 0
            THEN Opt(active_liens # <<>>,
                     CliFlag("MEDIUM", "Financial",
                             "Active UCC liens (" \o ToString(Len(active_liens))
                               \o " filings)",
                             active_liens))
            ELSE <<>>)
        \o (IF IsDict(sec_data)
            THEN Opt(enforcement # <<>>,
                     CliFlag("HIGH", "Regulatory", "SEC enforcement action(s) found",
                             enforcement))
            ELSE <<>>)

\* successful_queries counting every dict entry as failed
SuccessfulQueriesNoDicts(ds) ==
    Cardinality({name \in DOMAIN ds : ~IsDict(ds[name])})

\* successful_queries (osint_research.py 291-292)
SuccessfulQueries(ds) ==
    Cardinality({name \in DOMAIN ds : ~IsDict(ds[name]) \/ "error" \notin DOMAIN ds[name].v})

\* OSINTResearcher._generate_summary (osint_research.py 284-302)
_generate_summary(target_type, ds, related_entities, flags) ==
    [ target |-> Target,
      target_type |-> target_type,
      total_data_sources_queried |-> Cardinality(DOMAIN ds),
      successful_queries |-> SuccessfulQueries(ds),
      related_entities_found |-> Len(related_entities),
      red_flags_count |-> Len(flags),
      red_flags_by_severity |->
          [ HIGH |-> CountOf(flags, "HIGH"), MEDIUM |-> CountOf(flags, "MEDIUM"),
            LOW |-> CountOf(flags, "LOW") ],
      risk_assessment |-> _calculate_risk_score(flags) ]

InitCli ==
    /\ search_type \in {"company", "person"}
    /\ collectors \in CollectorChoices
    /\ pc = (IF collectors = <<>> THEN "red_flags" ELSE collectors[1])
    /\ outcome = EmptyDict
    /\ data_sources = EmptyDict
    /\ news_intel = EmptyDict
    /\ intel_assessment = EmptyDict
    /\ scores = EmptyDict
    /\ overall = 0
    /\ red_flags = <<>>
    /\ verdict = EmptyDict
    /\ first_run = [completed |-> FALSE]

\* the except branch leaving no entry for the collector
CollectorFailedUnrecorded(name) ==
    /\ Record(name, "error")
    /\ UNCHANGED data_sources

\* the except branch (osint_research.py 142-144, 213-215)
CollectorFailed(name) ==
    /\ Record(name, "error")
    /\ Store(name, ErrorMarker)

\* one iteration of the collector loop (osint_research.py 121-144, 192-215)
RunCollector ==
    /\ pc \in Range(collectors)
    /\ \/ \E data \in CollectorResults(pc, search_type) :
            /\ Record(pc, "ok")
            /\ Store(pc, data)
       \/ CollectorFailed(pc)
    /\ pc' = AfterCollector(pc)
    /\ UNCHANGED <<search_type, news_intel, intel_assessment, scores, overall,
                   red_flags, verdict, first_run, collectors>>

\* osint_research.py 146-152, 217-223: the related entities are a function of
\* data_sources and are read by the summary only
IdentifyRedFlags ==
    /\ pc = "red_flags"
    /\ red_flags' = _identify_red_flags(data_sources)
    /\ pc' = "summary"
    /\ UNCHANGED <<search_type, outcome, data_sources, news_intel, intel_assessment,
                   scores, overall, verdict, first_run, collectors>>

\* osint_research.py 154-157, 225-228
GenerateSummary ==
    /\ pc = "summary"
    /\ verdict' = _generate_summary(search_type, data_sources,
                                    find_connections(data_sources), red_flags)
    /\ pc' = "returned"
    /\ UNCHANGED <<search_type, outcome, data_sources, news_intel, intel_assessment,
                   scores, overall, red_flags, first_run, collectors>>

NextCli ==
    \/ RunCollector
    \/ IdentifyRedFlags
    \/ GenerateSummary

Cli == InitCli /\ [][NextCli]_vars

\* the entry of a collector is the error record
IsErrorEntry(name) ==
    IsDict(data_sources[name]) /\ "error" \in DOMAIN data_sources[name].v

\* the data source a red-flag category is derived from
FlagSource(category) ==
    IF category = "Legal" THEN "court_records"
    ELSE IF category = "Financial" THEN "ucc_filings"
    ELSE "sec_edgar"

\* C30: an exception of one collector is recorded as that collector's error
\* entry and the remaining collectors still run; after the loop data_sources
\* has exactly one entry per enabled collector; red flags and summary are
\* produced only after all collectors have run; an errored source yields no
\* red flag; successful_queries is total_data_sources_queried minus the
\* number of entries that are dicts containing 'error'.
CollectorIsolation ==
    /\ DOMAIN outcome = DOMAIN data_sources
    /\ \A name \in DOMAIN outcome : (outcome[name] = "error") <=> IsErrorEntry(name)
    /\ pc \in {"red_flags", "summary", "returned"} =>
          DOMAIN data_sources = Range(collectors)
    /\ pc \in Range(collectors) => (red_flags = <<>> /\ verdict = EmptyDict)
    /\ pc = "red_flags" => verdict = EmptyDict
    /\ \A i \in DOMAIN red_flags :
          /\ FlagSource(red_flags[i].category) \in DOMAIN outcome
          /\ outcome[FlagSource(red_flags[i].category)] = "ok"
    /\ pc = "returned" =>
          /\ verdict.total_data_sources_queried = Len(collectors)
          /\ verdict.successful_queries =
                verdict.total_data_sources_queried
                - Cardinality({name \in DOMAIN data_sources : IsErrorEntry(name)})

\* all six collectors enabled, the first one failed, and the court records
\* collected after it raised two red flags
IsolationWitness ==
    /\ pc = "returned"
    /\ collectors = CollectorNames
    /\ outcome["sec_edgar"] = "error"
    /\ outcome["court_records"] = "ok"
    /\ Len(red_flags) = 2
    /\ verdict.successful_queries = 5

====
